---- MODULE Spec2Model ----
(***************************************************************************)
(* Model of the jigxel engine's ECS world (package ecs, src/cmd/main.go).  *)
(*                                                                         *)
(* Every World method holds the world mutex from its first to its last     *)
(* statement, so Spec and SpecSys take a method as one atomic action.      *)
(*                                                                         *)
(* Spec     : the entity and component operations, started from a world    *)
(*            whose system list is RegisteredSystems.                      *)
(* SpecSys  : the system operations and the Update pass (split where it    *)
(*            holds no lock), started from one of InitWorlds.              *)
(* SpecConc : the entity and component methods statement by statement,     *)
(*            run by concurrent callers that synchronise on the world's    *)
(*            sync.RWMutex.                                                *)
(***************************************************************************)
EXTENDS Integers, Sequences, FiniteSets, TLC

\* ------------------------------------------------------------------ bounds
MaxEntities == 2
MaxList == 2
MaxSystems == 2
MaxCalls == 4
MaxTicks == 2
MaxPhysCalls == 3
MaxFrames == 2

\* ------------------------------------------------------------ input domains
\* Type tags reported by GetType (two of the catalog's five).
Types == {"transform", "tag"}

\* A component is a pointer to a payload: its identity is (type tag, instance).
\* Two distinct payloads per type tell an overwrite from the value it replaces.
Insts == {1, 2}
Comps == [type : Types, inst : Insts]

\* The nil Component returned for a missing key or entity.
NilComp == [type |-> "nil", inst |-> 0]

\* Registered system objects; two of them report the same name.
SysA1 == [inst |-> 1, name |-> "A"]
SysA2 == [inst |-> 2, name |-> "A"]
SysB == [inst |-> 3, name |-> "B"]
Systems == {SysA1, SysA2, SysB}

GetName(system) == system.name

SysNames == {"A", "B", "C"}

\* Entity IDs callers may pass: those allocated so far and those not yet.
EntityIDs == 0..(MaxEntities - 1)

VARIABLES
    entities,       \* w.entities     : EntityID -> Entity (partial)
    components,     \* w.components   : type tag -> list of components
    systems,        \* w.systems      : list of systems
    nextEntityID,   \* w.nextEntityID
    updPc,          \* position of the Update call: "idle", "rlock", "copy", "loop", "callback"
    updSystems,     \* Update's local copy `systems`
    updIdx,         \* number of callbacks Update has invoked in this pass
    returned,       \* history: IDs returned by CreateEntity, in call order
    destroyed,      \* history: IDs of entities removed by DestroyEntity
    attached,       \* history: <<id, type>> -> component of the latest AddComponent
    updStart,       \* history: w.systems when the current/last Update started
    invoked,        \* history: callbacks invoked by the current/last Update
    lastOp,         \* history: the operation that produced this state
    mutexW,         \* sync.RWMutex: the caller holding the write lock, or "none"
    mutexR,         \* sync.RWMutex: the callers holding a read lock
    pc,             \* per caller: position in the method it is executing
    call,           \* per caller: method and arguments
    local,          \* per caller: local variables of the method
    calls,          \* history: number of method calls started
    committed,      \* history: the world state when the last write returned
    observed,       \* history: per caller, what the read it is in has seen
    bodies,         \* physics w.bodies : body ID -> RigidBody (partial)
    gravity,        \* physics w.gravity
    ticks,          \* history: number of physics Update calls made
    physPre,        \* history: w.bodies when the last physics Update started
    physMid,        \* history: w.bodies after its integration loop
    physOrder,      \* history: the order checkCollisions collected the bodies in
    physDt,         \* history: the deltaTime of the last physics Update
    physG,          \* history: the gravity the last physics Update integrated with
    physMutexW,     \* physics w.mutex: the goroutine holding Lock, or "none"
    physMutexR,     \* physics w.mutex: the goroutines holding RLock
    physPc,         \* per goroutine: its position in a physics method
    physCall,       \* per goroutine: the physics method it is in and its arguments
    physCalls,      \* number of physics calls begun
    updBodies,      \* Update's range loop: the body IDs still to visit
    gravityUsed,    \* history: body ID -> the w.gravity its integration read
    engPc,          \* Engine.Run: the statement the loop thread is at
    running,        \* e.running
    shouldClose,    \* the window's close flag (window.ShouldClose())
    clock,          \* glfw.GetTime()
    lastTime,       \* e.lastTime
    frameDt,        \* Run's local deltaTime of the frame in progress
    frame,          \* history: number of loop iterations begun
    frameLog,       \* history: the calls made by the loop, in order
    stopAt,         \* history: the frame and statement at which the stop condition arose
    keys,           \* input m.keys : key -> bool (partial)
    prevKeys,       \* input m.prevKeys
    keyCallback,    \* the window's key-callback slot: whose callback is registered
    keyDown,        \* history: the keys between their Press and Release events
    keyEvents,      \* history: the key events polled, with their frame
    seen            \* history: what the key queries returned during each ECS dispatch

ecsVars == <<entities, components, systems, nextEntityID>>
updVars == <<updPc, updSystems, updIdx>>
histVars == <<returned, destroyed, attached, updStart, invoked, lastOp>>
concVars == <<mutexW, mutexR, pc, call, local, calls, committed, observed>>
physVars == <<bodies, gravity, ticks, physPre, physMid, physOrder, physDt, physG>>
physConcVars == <<physMutexW, physMutexR, physPc, physCall, physCalls, updBodies,
                  gravityUsed>>
engVars == <<engPc, running, shouldClose, clock, lastTime, frameDt, frame,
             frameLog, stopAt>>
inputVars == <<keys, prevKeys, keyCallback, keyDown, keyEvents, seen>>
extVars == <<physVars, physConcVars, engVars, inputVars>>
\* Everything of the ECS world but lastOp, which every world's operations set.
ecsSide == <<ecsVars, updVars, concVars, returned, destroyed, attached,
             updStart, invoked>>
vars == <<ecsVars, updVars, histVars, concVars, extVars>>

\* Goroutines calling into the world concurrently.
Callers == {"g1", "g2"}

\* ------------------------------------------------------------------ helpers
Op(op, id, type, comp, name) ==
    [op |-> op, id |-> id, type |-> type, comp |-> comp, name |-> name]

Range(s) == {s[i] : i \in 1..Len(s)}

\* append(s[:i], s[i+1:]...) with the 1-based index i
RemoveAt(s, i) == SubSeq(s, 1, i - 1) \o SubSeq(s, i + 1, Len(s))

\* Variant: the ID is the number of entities currently stored.
AllocEntityIDByCount(ents, next) == Cardinality(DOMAIN ents)

\* CreateEntity: entityID := w.nextEntityID
AllocEntityID(ents, next) == next

\* Entity record built by CreateEntity.
NewEntity(entityID) == [ID |-> entityID, Components |-> <<>>, Active |-> TRUE]

\* m[k] = v on a Go map modelled as a partial function
MapSet(m, k, v) == [x \in (DOMAIN m) \cup {k} |-> IF x = k THEN v ELSE m[x]]

\* delete(m, k)
MapDelete(m, k) == [x \in (DOMAIN m) \ {k} |-> m[x]]

\* w.components[componentType], nil (empty) for a missing key
ComponentList(comps, type) == IF type \in DOMAIN comps THEN comps[type] ELSE <<>>

\* removeComponentFromList: drops the first non-nil entry of the type's list.
FirstNonNil(list) ==
    IF \E i \in 1..Len(list) : list[i] # NilComp
    THEN CHOOSE i \in 1..Len(list) :
            /\ list[i] # NilComp
            /\ \A j \in 1..(i - 1) : list[j] = NilComp
    ELSE 0

\* Variant: drops the last entry of the type's list instead of the first.
removeComponentFromListLast(comps, entityID, componentType) ==
    IF componentType \in DOMAIN comps /\ Len(comps[componentType]) > 0
    THEN [comps EXCEPT ![componentType] =
              RemoveAt(comps[componentType], Len(comps[componentType]))]
    ELSE comps

removeComponentFromList(comps, entityID, componentType) ==
    IF componentType \in DOMAIN comps /\ FirstNonNil(comps[componentType]) # 0
    THEN [comps EXCEPT ![componentType] =
              RemoveAt(comps[componentType], FirstNonNil(comps[componentType]))]
    ELSE comps

\* DestroyEntity's loop: one removeComponentFromList per type the entity holds.
RECURSIVE RemoveAllFromLists(_, _, _)
RemoveAllFromLists(comps, entityID, types) ==
    IF types = {} THEN comps
    ELSE LET t == CHOOSE x \in types : TRUE
         IN RemoveAllFromLists(removeComponentFromList(comps, entityID, t),
                               entityID, types \ {t})

\* ------------------------------------------------------------------ queries
GetComponentIn(ents, entityID, componentType) ==
    IF entityID \in DOMAIN ents
    THEN IF componentType \in DOMAIN ents[entityID].Components
         THEN ents[entityID].Components[componentType]
         ELSE NilComp
    ELSE NilComp

GetComponent(entityID, componentType) ==
    GetComponentIn(entities, entityID, componentType)

\* Variant: an entity counts only while its component is in the global list.
GetEntitiesWithComponentViaList(ents, comps, componentType) ==
    {entityID \in DOMAIN ents :
        /\ componentType \in DOMAIN ents[entityID].Components
        /\ \E i \in 1..Len(ComponentList(comps, componentType)) :
              comps[componentType][i] = ents[entityID].Components[componentType]}

\* The result slice as a set (the map is ranged over in unspecified order).
GetEntitiesWithComponentIn(ents, comps, componentType) ==
    {entityID \in DOMAIN ents : componentType \in DOMAIN ents[entityID].Components}

GetEntitiesWithComponent(componentType) ==
    GetEntitiesWithComponentIn(entities, components, componentType)

GetEntityCount == Cardinality(DOMAIN entities)

GetSystemCount == Len(systems)

\* ------------------------------------------------------- state transformers
\* Each returns the fields the method writes, as the code computes them.
\* Variant: the entity is marked inactive and its record is kept.
DestroyEntityEntitiesDeactivate(ents, entityID) ==
    IF entityID \in DOMAIN ents THEN [ents EXCEPT ![entityID].Active = FALSE] ELSE ents

DestroyEntityEntities(ents, entityID) ==
    IF entityID \in DOMAIN ents THEN MapDelete(ents, entityID) ELSE ents

DestroyEntityComponents(ents, comps, entityID) ==
    IF entityID \in DOMAIN ents
    THEN RemoveAllFromLists(comps, entityID, DOMAIN ents[entityID].Components)
    ELSE comps

\* Variant: a component of a type the entity already holds is not replaced.
AddComponentEntitiesKeepFirst(ents, entityID, component) ==
    IF entityID \in DOMAIN ents /\ component.type \notin DOMAIN ents[entityID].Components
    THEN [ents EXCEPT ![entityID].Components =
              MapSet(ents[entityID].Components, component.type, component)]
    ELSE ents

AddComponentEntities(ents, entityID, component) ==
    IF entityID \in DOMAIN ents
    THEN [ents EXCEPT ![entityID].Components =
              MapSet(ents[entityID].Components, component.type, component)]
    ELSE ents

AddComponentComponentsUnchecked(ents, comps, entityID, component) ==
    MapSet(comps, component.type,
           Append(ComponentList(comps, component.type), component))

AddComponentComponents(ents, comps, entityID, component) ==
    IF entityID \in DOMAIN ents
    THEN MapSet(comps, component.type,
                Append(ComponentList(comps, component.type), component))
    ELSE comps

RemoveComponentEntities(ents, entityID, componentType) ==
    IF entityID \in DOMAIN ents /\ componentType \in DOMAIN ents[entityID].Components
    THEN [ents EXCEPT ![entityID].Components =
              MapDelete(ents[entityID].Components, componentType)]
    ELSE ents

RemoveComponentComponentsUnchecked(ents, comps, entityID, componentType) ==
    IF entityID \in DOMAIN ents
    THEN removeComponentFromList(comps, entityID, componentType)
    ELSE comps

RemoveComponentComponents(ents, comps, entityID, componentType) ==
    IF entityID \in DOMAIN ents /\ componentType \in DOMAIN ents[entityID].Components
    THEN removeComponentFromList(comps, entityID, componentType)
    ELSE comps

\* Variant: the loop index is left at the first element when nothing matches.
FirstNamedOrFirst(syss, systemName) ==
    IF \E i \in 1..Len(syss) : GetName(syss[i]) = systemName
    THEN CHOOSE i \in 1..Len(syss) :
            /\ GetName(syss[i]) = systemName
            /\ \A j \in 1..(i - 1) : GetName(syss[j]) # systemName
    ELSE IF Len(syss) > 0 THEN 1 ELSE 0

\* RemoveSystem: drops the first system reporting the name, then breaks.
FirstNamed(syss, systemName) ==
    IF \E i \in 1..Len(syss) : GetName(syss[i]) = systemName
    THEN CHOOSE i \in 1..Len(syss) :
            /\ GetName(syss[i]) = systemName
            /\ \A j \in 1..(i - 1) : GetName(syss[j]) # systemName
    ELSE 0

RemoveSystemList(syss, systemName) ==
    IF FirstNamed(syss, systemName) # 0
    THEN RemoveAt(syss, FirstNamed(syss, systemName))
    ELSE syss

\* Variant: the loop ranges over w.systems itself.
PassSystemsLive(snapshot, live) == live

\* Update's `systems := make(...); copy(systems, w.systems)` and the list its
\* loop ranges over: the copy, whatever w.systems has become.
PassSystems(snapshot, live) == snapshot

\* ------------------------------------------------------------------ history
AttachedAfterDestroy(att, entityID) ==
    [k \in {x \in DOMAIN att : x[1] # entityID} |-> att[k]]

\* ------------------------------------------------------------- concurrency
NoCall == Op("none", -1, "", NilComp, "")
NoLocal == [entityID |-> -1, types |-> {}]
NoObs == [method |-> "none", result |-> {}, expect |-> {}, clean |-> TRUE]

\* The calls a goroutine can make on the entity and component methods.
ConcCalls ==
    {Op("CreateEntity", -1, "", NilComp, "")}
    \cup {Op("DestroyEntity", id, "", NilComp, "") : id \in EntityIDs}
    \cup {Op("AddComponent", id, c.type, c, "") : id \in EntityIDs, c \in Comps}
    \cup {Op("RemoveComponent", id, t, NilComp, "") : id \in EntityIDs, t \in Types}
    \cup {Op("GetComponent", id, t, NilComp, "") : id \in EntityIDs, t \in Types}
    \cup {Op("GetEntitiesWithComponent", -1, t, NilComp, "") : t \in Types}

Writers == {"CreateEntity", "DestroyEntity", "AddComponent", "RemoveComponent"}
Readers == {"GetComponent", "GetEntitiesWithComponent"}

\* Variant: AddComponent takes the shared lock (RLock for Lock).
LockModeAddShared(method) ==
    IF method \in Writers \ {"AddComponent"} THEN "Lock" ELSE "RLock"

\* The lock each method takes in its first statement and defers releasing.
LockMode(method) == IF method \in Writers THEN "Lock" ELSE "RLock"

\* sync.RWMutex: Lock waits for the writer and all readers to be gone,
\* RLock waits for the writer to be gone.
CanAcquire(mode) ==
    IF mode = "Lock" THEN mutexW = "none" /\ mutexR = {} ELSE mutexW = "none"

\* First statement of each method after its lock.
Entry(method) ==
    CASE method = "CreateEntity" -> "ce_alloc"
      [] method = "DestroyEntity" -> "de_check"
      [] method = "AddComponent" -> "ac_set"
      [] method = "RemoveComponent" -> "rc_delete"
      [] method = "GetComponent" -> "gc_read"
      [] method = "GetEntitiesWithComponent" -> "ge_read"

World == [entities |-> entities, components |-> components,
          nextEntityID |-> nextEntityID]

\* ================================================================ physics
\* Model of the physics world (package physics, src/internal/physics/world.go).
\* float64 values are modelled as exact rationals [n, d] in lowest terms.
RECURSIVE GCD(_, _)
GCD(a, b) == IF b = 0 THEN a ELSE GCD(b, a % b)

Abs(i) == IF i < 0 THEN -i ELSE i

Rat(n, d) ==
    LET g == GCD(Abs(n), Abs(d))
        sgn == IF d < 0 THEN -1 ELSE 1
    IN [n |-> sgn * (n \div g), d |-> sgn * (d \div g)]

\* The arithmetic operators take their operands' values once, as x and y.
RatAdd(a, b) ==
    CHOOSE sum \in {LET g == GCD(x.d, y.d)
                    IN Rat(x.n * (y.d \div g) + y.n * (x.d \div g), (x.d \div g) * y.d) :
                    x \in {a}, y \in {b}} : TRUE

RatNeg(a) == CHOOSE neg \in {[n |-> -x.n, d |-> x.d] : x \in {a}} : TRUE

RatSub(a, b) == RatAdd(a, RatNeg(b))

RatMul(a, b) ==
    CHOOSE product \in
        {LET g1 == GCD(Abs(x.n), y.d)
             g2 == GCD(Abs(y.n), x.d)
         IN IF x.n = 0 \/ y.n = 0 THEN [n |-> 0, d |-> 1]
            ELSE [n |-> (x.n \div g1) * (y.n \div g2),
                  d |-> (x.d \div g2) * (y.d \div g1)] :
         x \in {a}, y \in {b}} : TRUE

RatDiv(a, b) == CHOOSE quotient \in {RatMul(x, Rat(y.d, y.n)) : x \in {a}, y \in {b}} : TRUE

RatLt(a, b) ==
    \E x \in {a}, y \in {b} :
        LET g == GCD(x.d, y.d)
        IN x.n * (y.d \div g) < y.n * (x.d \div g)

RatAbs(a) == CHOOSE abs \in {[n |-> Abs(x.n), d |-> x.d] : x \in {a}} : TRUE

Zero == Rat(0, 1)

One == Rat(1, 1)

Two == Rat(2, 1)

\* math.Sqrt on a value that is a perfect square.
ISqrt(k) == CHOOSE r \in 0..k : r * r = k

RatSqrt(a) == [n |-> ISqrt(a.n), d |-> ISqrt(a.d)]

\* Vector2 and its methods.
Vector2(x, y) == [X |-> x, Y |-> y]

VZero == Vector2(Zero, Zero)

Add(v, other) == Vector2(RatAdd(v.X, other.X), RatAdd(v.Y, other.Y))

Sub(v, other) == Vector2(RatSub(v.X, other.X), RatSub(v.Y, other.Y))

Mul(v, scalar) == Vector2(RatMul(v.X, scalar), RatMul(v.Y, scalar))

Div(v, scalar) == Vector2(RatDiv(v.X, scalar), RatDiv(v.Y, scalar))

\* Length: sqrt(x*x + y*y), which is |x| or |y| on an axis.
Length(v) ==
    IF v.X.n = 0 THEN RatAbs(v.Y)
    ELSE IF v.Y.n = 0 THEN RatAbs(v.X)
    ELSE RatSqrt(RatAdd(RatMul(v.X, v.X), RatMul(v.Y, v.Y)))

InverseMassOfNonZero(mass) == IF mass # Zero THEN RatDiv(One, mass) ELSE Zero

\* NewRigidBody: inverse mass 1/mass for mass > 0, else 0; at rest, active.
InverseMassOf(mass) == IF RatLt(Zero, mass) THEN RatDiv(One, mass) ELSE Zero

NewRigidBody(id, position, width, height, mass) ==
    [ID |-> id, Position |-> position, Velocity |-> VZero, Force |-> VZero,
     Mass |-> mass, InverseMass |-> InverseMassOf(mass),
     Width |-> width, Height |-> height, Active |-> TRUE]

\* The nil *RigidBody returned for a missing key.
NilBody == [ID |-> 0]

GetBodyIn(bs, id) == IF id \in DOMAIN bs THEN bs[id] ELSE NilBody

GetBody(id) == GetBodyIn(bodies, id)

IntegrateBodyOldVelocity(body, g, deltaTime) ==
    IF ~body.Active THEN body
    ELSE LET force == Add(body.Force, Mul(g, body.Mass))
             velocity == Add(body.Velocity, Mul(Mul(force, deltaTime), body.InverseMass))
             position == Add(body.Position, Mul(body.Velocity, deltaTime))
         IN [body EXCEPT !.Velocity = velocity, !.Position = position, !.Force = VZero]

\* Update, lines 79-93: one iteration of the integration loop.
IntegrateBody(body, g, deltaTime) ==
    IF ~body.Active THEN body
    ELSE LET force == Add(body.Force, Mul(g, body.Mass))
             velocity == Add(body.Velocity, Mul(Mul(force, deltaTime), body.InverseMass))
             position == Add(body.Position, Mul(velocity, deltaTime))
         IN [body EXCEPT !.Velocity = velocity, !.Position = position, !.Force = VZero]

Integrate(bs, g, deltaTime) ==
    [id \in DOMAIN bs |-> IntegrateBody(bs[id], g, deltaTime)]

\* checkCollision: the AABB test.
checkCollision(body1, body2) ==
    LET left1 == RatSub(body1.Position.X, RatDiv(body1.Width, Two))
        right1 == RatAdd(body1.Position.X, RatDiv(body1.Width, Two))
        top1 == RatAdd(body1.Position.Y, RatDiv(body1.Height, Two))
        bottom1 == RatSub(body1.Position.Y, RatDiv(body1.Height, Two))
        left2 == RatSub(body2.Position.X, RatDiv(body2.Width, Two))
        right2 == RatAdd(body2.Position.X, RatDiv(body2.Width, Two))
        top2 == RatAdd(body2.Position.Y, RatDiv(body2.Height, Two))
        bottom2 == RatSub(body2.Position.Y, RatDiv(body2.Height, Two))
    IN ~(RatLt(right1, left2) \/ RatLt(right2, left1)
         \/ RatLt(top2, bottom1) \/ RatLt(top1, bottom2))

\* resolveCollision, lines 140-146: the separation vector and the distance
\* used from there on.
Separation(body1, body2) ==
    LET separation == Sub(body2.Position, body1.Position)
    IN IF Length(separation) = Zero THEN Vector2(One, Zero) ELSE separation

Distance(body1, body2) ==
    LET separation == Sub(body2.Position, body1.Position)
    IN IF Length(separation) = Zero THEN One ELSE Length(separation)

\* resolveCollision, line 152.
Overlap(body1, body2) ==
    RatSub(RatDiv(RatAdd(body1.Width, body2.Width), Two), Distance(body1, body2))

SeparationVectorWhole(body1, body2) ==
    Mul(Div(Separation(body1, body2), Distance(body1, body2)), Overlap(body1, body2))

\* resolveCollision, line 156.
SeparationVector(body1, body2) ==
    Mul(Div(Separation(body1, body2), Distance(body1, body2)),
        RatDiv(Overlap(body1, body2), Two))

\* resolveCollision on the bodies with IDs id1 (body1) and id2 (body2).
resolveCollision(bs, id1, id2) ==
    IF RatLt(Zero, Overlap(bs[id1], bs[id2]))
    THEN [id \in DOMAIN bs |->
            IF id = id1 /\ RatLt(Zero, bs[id1].InverseMass)
            THEN [bs[id] EXCEPT !.Position =
                     Sub(bs[id1].Position, SeparationVector(bs[id1], bs[id2]))]
            ELSE IF id = id2 /\ RatLt(Zero, bs[id2].InverseMass)
            THEN [bs[id] EXCEPT !.Position =
                     Add(bs[id2].Position, SeparationVector(bs[id1], bs[id2]))]
            ELSE bs[id]]
    ELSE bs

CollisionCandidatesAll(bs) == DOMAIN bs

\* checkCollisions, lines 102-107: the bodies collected for the pair loop.
CollisionCandidates(bs) == {id \in DOMAIN bs : bs[id].Active}

\* The range of the arithmetic: math.Sqrt is modelled where the distance of
\* every two collected bodies is rational, which is where their centers are
\* separated along one axis.
OnAxis(v) == v.X.n = 0 \/ v.Y.n = 0

Exact(bs) ==
    \A id1, id2 \in CollisionCandidates(bs) :
        OnAxis(Sub(bs[id2].Position, bs[id1].Position))

\* The orders in which ranging over the map can collect a set of IDs.
Orders(ids) ==
    {o \in [1..Cardinality(ids) -> ids] : \A i, j \in DOMAIN o : i # j => o[i] # o[j]}

\* checkCollisions, lines 109-115: the pairs (i, j), i < j, in loop order.
RECURSIVE PairsFrom(_, _, _)
PairsFrom(order, i, j) ==
    IF i > Len(order) THEN <<>>
    ELSE IF j > Len(order) THEN PairsFrom(order, i + 1, i + 2)
    ELSE <<(<<order[i], order[j]>>)>> \o PairsFrom(order, i, j + 1)

PairsWithSelf(order) == PairsFrom(order, 1, 1)

Pairs(order) == PairsFrom(order, 1, 2)

RECURSIVE ResolvePairs(_, _)
ResolvePairs(bs, pairs) ==
    IF pairs = <<>> THEN bs
    ELSE LET p == Head(pairs)
             next == IF checkCollision(bs[p[1]], bs[p[2]])
                     THEN resolveCollision(bs, p[1], p[2]) ELSE bs
         IN ResolvePairs(next, Tail(pairs))

checkCollisions(bs, order) == ResolvePairs(bs, Pairs(order))

\* NewWorld (physics): no bodies, gravity (0, -9.81).
DefaultGravity == Vector2(Zero, Rat(-981, 100))

\* AddBody: w.bodies[body.ID] = body.
AddBodyIn(bs, body) == MapSet(bs, body.ID, body)

\* RemoveBody: delete(w.bodies, id).
RemoveBodyIn(bs, id) == MapDelete(bs, id)

\* Body IDs the callers pass to RemoveBody.
BodyIDs == {1, 2, 3}

\* Gravity vectors passed to SetGravity and frame times passed to Update.
Gravities == {VZero, DefaultGravity}

DeltaTimes == {Rat(1, 60), One}

\* Worlds built by NewRigidBody, writes to the bodies' exported fields, and
\* AddBody.  Falling: one unit-mass body at rest at the origin.
Falling == AddBodyIn(<<>>, NewRigidBody(1, VZero, One, One, One))

\* PairX: equal masses, centers differing in X only, closer than (w1+w2)/2.
PairX == AddBodyIn(AddBodyIn(<<>>, NewRigidBody(1, VZero, Two, Two, Two)),
                   NewRigidBody(2, Vector2(One, Zero), Two, Two, Two))

PairXWide == AddBodyIn(AddBodyIn(<<>>, NewRigidBody(1, Vector2(Two, Zero), Rat(4, 1), Two, One)),
                       NewRigidBody(2, VZero, Two, Two, One))

\* Stack: a movable body resting on a zero-mass body.
Stack == AddBodyIn(AddBodyIn(<<>>, NewRigidBody(1, VZero, Rat(4, 1), One, Zero)),
                   NewRigidBody(2, Vector2(Zero, One), Two, Two, One))

\* Coincident: two movable bodies with the same center.
Coincident == AddBodyIn(AddBodyIn(<<>>, NewRigidBody(1, VZero, One, One, One)),
                        NewRigidBody(2, VZero, One, One, One))

CoincidentWide == AddBodyIn(AddBodyIn(<<>>, NewRigidBody(1, VZero, Two, Two, One)),
                            NewRigidBody(2, VZero, Rat(4, 1), Two, One))

\* Inactive: a deactivated body, moving and loaded, overlapping an active one.
Inactive ==
    AddBodyIn(AddBodyIn(<<>>, NewRigidBody(1, VZero, Two, Two, One)),
              [NewRigidBody(2, Vector2(Zero, One), Two, Two, One) EXCEPT
                  !.Velocity = Vector2(Zero, One), !.Force = Vector2(Zero, One),
                  !.Active = FALSE])

\* Pushed: a body of mass 2 given a velocity and a force.
Pushed ==
    AddBodyIn(<<>>, [NewRigidBody(1, VZero, Two, Two, Two) EXCEPT
                        !.Velocity = Vector2(One, Zero), !.Force = Vector2(Zero, One)])

\* Drifting: a zero-mass body given a velocity and a force.
Drifting ==
    AddBodyIn(<<>>, [NewRigidBody(1, VZero, Two, Two, Zero) EXCEPT
                        !.Velocity = Vector2(Zero, One), !.Force = Vector2(Zero, One)])

\* Crowd: three active bodies in a row, each overlapping its neighbour, and a
\* deactivated body in their middle.
Crowd ==
    AddBodyIn(AddBodyIn(AddBodyIn(AddBodyIn(<<>>,
        NewRigidBody(1, VZero, Two, Two, One)),
        NewRigidBody(2, Vector2(One, Zero), Two, Two, One)),
        NewRigidBody(3, Vector2(Two, Zero), Two, Two, One)),
        [NewRigidBody(4, Vector2(One, Zero), Two, Two, One) EXCEPT !.Active = FALSE])

\* StackNegative: a movable body resting on a body of negative mass.
StackNegative ==
    AddBodyIn(AddBodyIn(<<>>, NewRigidBody(1, VZero, Rat(4, 1), One, Rat(-2, 1))),
              NewRigidBody(2, Vector2(Zero, One), Two, Two, One))

\* PairNegative: a movable body beside a body of negative mass.
PairNegative ==
    AddBodyIn(AddBodyIn(<<>>, NewRigidBody(1, VZero, Two, Two, Rat(-1, 1))),
              NewRigidBody(2, Vector2(One, Zero), Two, Two, Two))

MassScenarios == {Stack, StackNegative, PairNegative}

Scenarios == {Falling, PairX, PairXWide, Stack, Coincident, CoincidentWide,
              Inactive, Pushed, Drifting}


\* NewWorld: empty maps, empty system list, nextEntityID zero.
NewWorld == [entities |-> <<>>, components |-> <<>>, nextEntityID |-> 0,
             returned |-> <<>>, attached |-> <<>>]

\* The world after CreateEntity(); AddComponent(0, c): a populated world for
\* the system operations to leave alone.
PopulatedWorld ==
    LET c == [type |-> "tag", inst |-> 1]
        ents == MapSet(<<>>, 0, NewEntity(0))
    IN [entities |-> AddComponentEntities(ents, 0, c),
        components |-> AddComponentComponents(ents, <<>>, 0, c),
        nextEntityID |-> 1,
        returned |-> <<0>>,
        attached |-> MapSet(<<>>, <<0, "tag">>, c)]

InitWorlds == {NewWorld, PopulatedWorld}

\* The system list after AddSystem(SysA1); AddSystem(SysB): registered
\* systems for the entity operations to leave alone.
RegisteredSystems == <<SysA1, SysB>>

InitPhys(bs, g) ==
    /\ bodies = bs
    /\ gravity = g
    /\ ticks = 0
    /\ physPre = bs
    /\ physMid = bs
    /\ physOrder = <<>>
    /\ physDt = Zero
    /\ physG = g

\* No goroutine is inside a physics method.
NoPhysCall == [op |-> "none", id |-> 0, g |-> VZero, dt |-> Zero]

InitPhysConc ==
    /\ physMutexW = "none"
    /\ physMutexR = {}
    /\ physPc = [p \in Callers |-> "idle"]
    /\ physCall = [p \in Callers |-> NoPhysCall]
    /\ physCalls = 0
    /\ updBodies = <<>>
    /\ gravityUsed = <<>>

NotStopped == [frame |-> -1, pc |-> "none"]

\* NewEngine and Init, before Run: running false, window open.
InitEngine ==
    /\ engPc = "init"
    /\ running = FALSE
    /\ shouldClose = FALSE
    /\ clock = 0
    /\ lastTime = 0
    /\ frameDt = 0
    /\ frame = 0
    /\ frameLog = <<>>
    /\ stopAt = NotStopped

\* SetKeyCallback: the window has one slot; the new callback replaces the old.
SetKeyCallback(slot, callback) == callback

\* Manager.Init registers the input manager's keyCallback.
ManagerInit(slot) == SetKeyCallback(slot, "input")

\* setupCallbacks registers the engine's key callback.
setupCallbacks(slot) == SetKeyCallback(slot, "engine")

\* Engine.Init, lines 87-93: e.input.Init(), then e.setupCallbacks().
EngineInitCallbacks == setupCallbacks(ManagerInit("none"))

\* NewManager: empty maps; the window's slot as registration left it.
InitInput(slot) ==
    /\ keys = <<>>
    /\ prevKeys = <<>>
    /\ keyCallback = slot
    /\ keyDown = {}
    /\ keyEvents = <<>>
    /\ seen = <<>>

InitRest ==
    /\ InitPhysConc
    /\ InitEngine

InitExt(bs, g) ==
    /\ InitPhys(bs, g)
    /\ InitRest
    /\ InitInput(EngineInitCallbacks)

InitEcs(world, syss) ==
    /\ entities = world.entities
    /\ components = world.components
    /\ systems = syss
    /\ nextEntityID = world.nextEntityID
    /\ updPc = "idle"
    /\ updSystems = <<>>
    /\ updIdx = 0
    /\ returned = world.returned
    /\ destroyed = {}
    /\ attached = world.attached
    /\ updStart = <<>>
    /\ invoked = <<>>
    /\ lastOp = Op("NewWorld", -1, "", NilComp, "")
    /\ mutexW = "none"
    /\ mutexR = {}
    /\ pc = [p \in Callers |-> "idle"]
    /\ call = [p \in Callers |-> NoCall]
    /\ local = [p \in Callers |-> NoLocal]
    /\ calls = 0
    /\ committed = [entities |-> world.entities, components |-> world.components,
                    nextEntityID |-> world.nextEntityID]
    /\ observed = [p \in Callers |-> NoObs]

InitWith(world, syss) ==
    /\ InitEcs(world, syss)
    /\ InitExt(<<>>, DefaultGravity)

Init == InitWith(NewWorld, RegisteredSystems)

InitSys == \E world \in InitWorlds : InitWith(world, <<>>)

InitConc == InitWith(NewWorld, <<>>)

\* ----------------------------------------------------------------- actions
CreateEntity ==
    /\ nextEntityID < MaxEntities
    /\ LET entityID == AllocEntityID(entities, nextEntityID)
       IN /\ nextEntityID' = nextEntityID + 1
          /\ entities' = MapSet(entities, entityID, NewEntity(entityID))
          /\ returned' = Append(returned, entityID)
          /\ lastOp' = Op("CreateEntity", entityID, "", NilComp, "")
    /\ UNCHANGED <<components, systems, updVars, destroyed, attached,
                   updStart, invoked, concVars>>
    /\ UNCHANGED extVars

DestroyEntity(entityID) ==
    /\ entities' = DestroyEntityEntities(entities, entityID)
    /\ components' = DestroyEntityComponents(entities, components, entityID)
    /\ destroyed' = IF entityID \in DOMAIN entities
                    THEN destroyed \cup {entityID} ELSE destroyed
    /\ attached' = IF entityID \in DOMAIN entities
                   THEN AttachedAfterDestroy(attached, entityID) ELSE attached
    /\ lastOp' = Op("DestroyEntity", entityID, "", NilComp, "")
    /\ UNCHANGED <<systems, nextEntityID, updVars, returned, updStart,
                   invoked, concVars>>
    /\ UNCHANGED extVars

AddComponent(entityID, component) ==
    /\ Len(ComponentList(components, component.type)) < MaxList
    /\ entities' = AddComponentEntities(entities, entityID, component)
    /\ components' = AddComponentComponents(entities, components, entityID, component)
    /\ attached' = IF entityID \in DOMAIN entities
                   THEN MapSet(attached, <<entityID, component.type>>, component)
                   ELSE attached
    /\ lastOp' = Op("AddComponent", entityID, component.type, NilComp, "")
    /\ UNCHANGED <<systems, nextEntityID, updVars, returned, destroyed,
                   updStart, invoked, concVars>>
    /\ UNCHANGED extVars

RemoveComponent(entityID, componentType) ==
    /\ entities' = RemoveComponentEntities(entities, entityID, componentType)
    /\ components' = RemoveComponentComponents(entities, components, entityID, componentType)
    /\ attached' = IF entityID \in DOMAIN entities
                   THEN MapDelete(attached, <<entityID, componentType>>)
                   ELSE attached
    /\ lastOp' = Op("RemoveComponent", entityID, componentType, NilComp, "")
    /\ UNCHANGED <<systems, nextEntityID, updVars, returned, destroyed,
                   updStart, invoked, concVars>>
    /\ UNCHANGED extVars

AddSystem(system) ==
    /\ Len(systems) < MaxSystems
    /\ systems' = Append(systems, system)
    /\ lastOp' = Op("AddSystem", -1, "", NilComp, GetName(system))
    /\ UNCHANGED <<entities, components, nextEntityID, updVars, returned,
                   destroyed, attached, updStart, invoked, concVars>>
    /\ UNCHANGED extVars

RemoveSystem(systemName) ==
    /\ systems' = RemoveSystemList(systems, systemName)
    /\ lastOp' = Op("RemoveSystem", -1, "", NilComp, systemName)
    /\ UNCHANGED <<entities, components, nextEntityID, updVars, returned,
                   destroyed, attached, updStart, invoked, concVars>>
    /\ UNCHANGED extVars

\* Update, lines 204-207: the copy of w.systems taken under the read lock.
UpdateBegin ==
    /\ updPc = "idle"
    /\ updPc' = "loop"
    /\ updSystems' = systems
    /\ updIdx' = 0
    /\ updStart' = systems
    /\ invoked' = <<>>
    /\ lastOp' = Op("UpdateBegin", -1, "", NilComp, "")
    /\ UNCHANGED <<ecsVars, returned, destroyed, attached, concVars>>
    /\ UNCHANGED extVars

\* Update, lines 209-211: the next callback is invoked; no lock is held, so
\* the callback and other callers run world operations before the next one.
UpdateInvoke ==
    /\ updPc = "loop"
    /\ updIdx < Len(PassSystems(updSystems, systems))
    /\ invoked' = Append(invoked, PassSystems(updSystems, systems)[updIdx + 1])
    /\ updIdx' = updIdx + 1
    /\ lastOp' = Op("UpdateInvoke", -1, "", NilComp,
                    GetName(PassSystems(updSystems, systems)[updIdx + 1]))
    /\ UNCHANGED <<ecsVars, updPc, updSystems, returned, destroyed, attached,
                   updStart, concVars>>
    /\ UNCHANGED extVars

UpdateReturn ==
    /\ updPc = "loop"
    /\ updIdx >= Len(PassSystems(updSystems, systems))
    /\ updPc' = "idle"
    /\ updSystems' = <<>>
    /\ updIdx' = 0
    /\ lastOp' = Op("UpdateReturn", -1, "", NilComp, "")
    /\ UNCHANGED <<ecsVars, returned, destroyed, attached, updStart, invoked,
                   concVars>>
    /\ UNCHANGED extVars

Next ==
    \/ CreateEntity
    \/ \E entityID \in EntityIDs : DestroyEntity(entityID)
    \/ \E entityID \in EntityIDs, component \in Comps : AddComponent(entityID, component)
    \/ \E entityID \in EntityIDs, componentType \in Types :
          RemoveComponent(entityID, componentType)

Spec == Init /\ [][Next]_vars

\* The entity and component operations with one component value per type.
FirstComps == {component \in Comps : component.inst = 1}

NextLists ==
    \/ CreateEntity
    \/ \E entityID \in EntityIDs : DestroyEntity(entityID)
    \/ \E entityID \in EntityIDs, component \in FirstComps :
          AddComponent(entityID, component)
    \/ \E entityID \in EntityIDs, componentType \in Types :
          RemoveComponent(entityID, componentType)

SpecLists == Init /\ [][NextLists]_vars

NextSys ==
    \/ \E system \in Systems : AddSystem(system)
    \/ \E systemName \in SysNames : RemoveSystem(systemName)
    \/ UpdateBegin
    \/ UpdateInvoke
    \/ UpdateReturn

SpecSys == InitSys /\ [][NextSys]_vars

\* ---------------------------------------------- SpecPhys: the physics world
InitPhysWorld ==
    /\ InitEcs(NewWorld, <<>>)
    /\ \E bs \in Scenarios : InitExt(bs, DefaultGravity)

\* Update(deltaTime): integration of every active body, then checkCollisions
\* over the active bodies in the order the map range produced them.
WholeUpdate(deltaTime, order) ==
    /\ Exact(Integrate(bodies, gravity, deltaTime))
    /\ order \in Orders(CollisionCandidates(bodies))
    /\ bodies' = checkCollisions(Integrate(bodies, gravity, deltaTime), order)
    /\ ticks' = ticks + 1
    /\ physPre' = bodies
    /\ physMid' = Integrate(bodies, gravity, deltaTime)
    /\ physOrder' = order
    /\ physDt' = deltaTime
    /\ physG' = gravity

PhysicsUpdate(deltaTime, order) ==
    /\ ticks < MaxTicks
    /\ WholeUpdate(deltaTime, order)
    /\ lastOp' = Op("physics.Update", -1, "", NilComp, "")
    /\ UNCHANGED <<ecsSide, gravity, physConcVars, engVars, inputVars>>

SetGravity(g) ==
    /\ gravity' = g
    /\ lastOp' = Op("SetGravity", -1, "", NilComp, "")
    /\ UNCHANGED <<ecsSide, bodies, ticks, physPre, physMid, physOrder, physDt, physG,
                   physConcVars, engVars, inputVars>>

RemoveBody(id) ==
    /\ bodies' = RemoveBodyIn(bodies, id)
    /\ lastOp' = Op("RemoveBody", id, "", NilComp, "")
    /\ UNCHANGED <<ecsSide, gravity, ticks, physPre, physMid, physOrder, physDt, physG,
                   physConcVars, engVars, inputVars>>

NextPhys ==
    \/ \E deltaTime \in DeltaTimes :
          \E order \in Orders(CollisionCandidates(bodies)) :
             PhysicsUpdate(deltaTime, order)
    \/ \E g \in Gravities : SetGravity(g)
    \/ \E id \in BodyIDs : RemoveBody(id)

SpecPhys == InitPhysWorld /\ [][NextPhys]_vars

\* A world of three active bodies and an inactive one, updated and emptied.
InitPhysCrowd ==
    /\ InitEcs(NewWorld, <<>>)
    /\ InitExt(Crowd, DefaultGravity)

NextPhysCrowd ==
    \/ \E deltaTime \in DeltaTimes :
          \E order \in Orders(CollisionCandidates(bodies)) :
             PhysicsUpdate(deltaTime, order)
    \/ \E id \in BodyIDs : RemoveBody(id)

SpecPhysCrowd == InitPhysCrowd /\ [][NextPhysCrowd]_vars

\* Worlds with a body of zero or negative mass under a movable one.
InitPhysMass ==
    /\ InitEcs(NewWorld, <<>>)
    /\ \E bs \in MassScenarios : InitExt(bs, DefaultGravity)

SpecPhysMass == InitPhysMass /\ [][NextPhys]_vars

\* ------------------------------------ SpecPhysConc: physics method by step
PhysCallOf(op, id, g, dt) == [op |-> op, id |-> id, g |-> g, dt |-> dt]

\* Bodies 100 apart in X: one at the origin per ID step.
FarBody(id) == NewRigidBody(id, Vector2(Rat(100 * (id - 1), 1), Zero), One, One, One)

FarPair == AddBodyIn(AddBodyIn(<<>>, FarBody(1)), FarBody(2))

ConcGravities == {DefaultGravity, Vector2(One, Zero)}

\* The calls a goroutine can make on the physics world.
PhysCalls ==
    {PhysCallOf("Update", 0, VZero, One)}
    \cup {PhysCallOf("SetGravity", 0, g, Zero) : g \in ConcGravities}
    \cup {PhysCallOf("AddBody", id, VZero, Zero) : id \in BodyIDs}
    \cup {PhysCallOf("RemoveBody", id, VZero, Zero) : id \in BodyIDs}
    \cup {PhysCallOf("GetBody", id, VZero, Zero) : id \in BodyIDs}

\* Variant: SetGravity takes the write lock like the other mutators.
PhysLockModeGuarded(method) ==
    IF method \in {"Update", "AddBody", "RemoveBody", "SetGravity"} THEN "Lock"
    ELSE "RLock"

\* The lock each physics method takes: Lock in AddBody, RemoveBody and
\* Update, RLock in GetBody, none in SetGravity.
PhysLockMode(method) ==
    IF method \in {"Update", "AddBody", "RemoveBody"} THEN "Lock"
    ELSE IF method = "GetBody" THEN "RLock"
    ELSE "none"

PhysCanAcquireAlways(mode) == TRUE

\* sync.RWMutex, as for the ECS world's mutex.
PhysCanAcquire(mode) ==
    IF mode = "Lock" THEN physMutexW = "none" /\ physMutexR = {}
    ELSE physMutexW = "none"

\* First statement of each physics method after its lock, if it takes one.
PhysEntry(method) ==
    CASE method = "Update" -> "up_range"
      [] method = "AddBody" -> "ab_store"
      [] method = "RemoveBody" -> "rb_delete"
      [] method = "GetBody" -> "gb_read"
      [] method = "SetGravity" -> "sg_store"

InitPhysConcWorld ==
    /\ InitEcs(NewWorld, <<>>)
    /\ InitExt(FarPair, DefaultGravity)

\* A goroutine enters a physics method: it reaches the Lock()/RLock()
\* statement, or the first statement of a method that has none.
PhysBegin(p, c) ==
    /\ physPc[p] = "idle"
    /\ physCalls < MaxPhysCalls
    /\ physPc' = [physPc EXCEPT ![p] =
                     IF PhysLockMode(c.op) = "none" THEN PhysEntry(c.op) ELSE "lock"]
    /\ physCall' = [physCall EXCEPT ![p] = c]
    /\ physCalls' = physCalls + 1
    /\ UNCHANGED <<ecsSide, lastOp, physVars, physMutexW, physMutexR, updBodies,
                   gravityUsed, engVars, inputVars>>

\* w.mutex.Lock() / w.mutex.RLock() returns.
PhysAcquire(p) ==
    /\ physPc[p] = "lock"
    /\ PhysCanAcquire(PhysLockMode(physCall[p].op))
    /\ IF PhysLockMode(physCall[p].op) = "Lock"
       THEN physMutexW' = p /\ UNCHANGED physMutexR
       ELSE physMutexR' = physMutexR \cup {p} /\ UNCHANGED physMutexW
    /\ physPc' = [physPc EXCEPT ![p] = PhysEntry(physCall[p].op)]
    /\ UNCHANGED <<ecsSide, lastOp, physVars, physCall, physCalls, updBodies,
                   gravityUsed, engVars, inputVars>>

\* Update, line 78: the range over w.bodies starts, in some order.
UpdateRange(p, order) ==
    /\ physPc[p] = "up_range"
    /\ order \in Orders(DOMAIN bodies)
    /\ updBodies' = order
    /\ gravityUsed' = <<>>
    /\ physPre' = bodies
    /\ physDt' = physCall[p].dt
    /\ physPc' = [physPc EXCEPT ![p] = "up_body"]
    /\ UNCHANGED <<ecsSide, lastOp, bodies, gravity, ticks, physMid, physOrder, physG,
                   physMutexW, physMutexR, physCall, physCalls, engVars, inputVars>>

\* Update, lines 79-93: one iteration, reading w.gravity as it is now.
UpdateBody(p) ==
    /\ physPc[p] = "up_body"
    /\ updBodies # <<>>
    /\ bodies' = [bodies EXCEPT ![Head(updBodies)] =
                     IntegrateBody(@, gravity, physCall[p].dt)]
    /\ gravityUsed' = IF bodies[Head(updBodies)].Active
                      THEN MapSet(gravityUsed, Head(updBodies), gravity)
                      ELSE gravityUsed
    /\ updBodies' = Tail(updBodies)
    /\ physG' = gravity
    /\ UNCHANGED <<ecsSide, lastOp, gravity, ticks, physPre, physMid, physOrder, physDt,
                   physMutexW, physMutexR, physPc, physCall, physCalls, engVars, inputVars>>

\* Update, line 97: checkCollisions after the last body.
UpdateCollisions(p, order) ==
    /\ physPc[p] = "up_body"
    /\ updBodies = <<>>
    /\ order \in Orders(CollisionCandidates(bodies))
    /\ bodies' = checkCollisions(bodies, order)
    /\ physMid' = bodies
    /\ physOrder' = order
    /\ ticks' = ticks + 1
    /\ physPc' = [physPc EXCEPT ![p] = "unlock"]
    /\ UNCHANGED <<ecsSide, lastOp, gravity, physPre, physDt, physG, physMutexW,
                   physMutexR, physCall, physCalls, updBodies, gravityUsed, engVars, inputVars>>

\* AddBody, line 48.
AddBodyStore(p) ==
    /\ physPc[p] = "ab_store"
    /\ bodies' = AddBodyIn(bodies, FarBody(physCall[p].id))
    /\ physPc' = [physPc EXCEPT ![p] = "unlock"]
    /\ UNCHANGED <<ecsSide, lastOp, gravity, ticks, physPre, physMid, physOrder, physDt,
                   physG, physMutexW, physMutexR, physCall, physCalls, updBodies,
                   gravityUsed, engVars, inputVars>>

\* RemoveBody, line 56.
RemoveBodyDelete(p) ==
    /\ physPc[p] = "rb_delete"
    /\ bodies' = RemoveBodyIn(bodies, physCall[p].id)
    /\ physPc' = [physPc EXCEPT ![p] = "unlock"]
    /\ UNCHANGED <<ecsSide, lastOp, gravity, ticks, physPre, physMid, physOrder, physDt,
                   physG, physMutexW, physMutexR, physCall, physCalls, updBodies,
                   gravityUsed, engVars, inputVars>>

\* GetBody, line 64: the map is read.
GetBodyRead(p) ==
    /\ physPc[p] = "gb_read"
    /\ physPc' = [physPc EXCEPT ![p] = "unlock"]
    /\ UNCHANGED <<ecsSide, lastOp, physVars, physMutexW, physMutexR, physCall,
                   physCalls, updBodies, gravityUsed, engVars, inputVars>>

\* SetGravity, line 69: the two-word store w.gravity = gravity, made without
\* the lock.  A racing reader sees the whole store, or one word of it first.
SetGravityStore(p, words) ==
    /\ physPc[p] = "sg_store"
    /\ gravity' = CASE words = "XY" -> physCall[p].g
                    [] words = "X" -> Vector2(physCall[p].g.X, gravity.Y)
                    [] words = "Y" -> Vector2(gravity.X, physCall[p].g.Y)
    /\ physPc' = [physPc EXCEPT ![p] = IF words = "XY" THEN "idle" ELSE "sg_rest"]
    /\ physCall' = [physCall EXCEPT ![p] = IF words = "XY" THEN NoPhysCall ELSE @]
    /\ UNCHANGED <<ecsSide, lastOp, bodies, ticks, physPre, physMid, physOrder, physDt,
                   physG, physMutexW, physMutexR, physCalls, updBodies, gravityUsed,
                   engVars, inputVars>>

SetGravityRest(p) ==
    /\ physPc[p] = "sg_rest"
    /\ gravity' = physCall[p].g
    /\ physPc' = [physPc EXCEPT ![p] = "idle"]
    /\ physCall' = [physCall EXCEPT ![p] = NoPhysCall]
    /\ UNCHANGED <<ecsSide, lastOp, bodies, ticks, physPre, physMid, physOrder, physDt,
                   physG, physMutexW, physMutexR, physCalls, updBodies, gravityUsed,
                   engVars, inputVars>>

\* The deferred Unlock()/RUnlock() runs and the method returns.
PhysReturn(p) ==
    /\ physPc[p] = "unlock"
    /\ IF PhysLockMode(physCall[p].op) = "Lock"
       THEN /\ physMutexW' = (IF physMutexW = p THEN "none" ELSE physMutexW)
            /\ UNCHANGED physMutexR
       ELSE /\ physMutexR' = physMutexR \ {p}
            /\ UNCHANGED physMutexW
    /\ physPc' = [physPc EXCEPT ![p] = "idle"]
    /\ physCall' = [physCall EXCEPT ![p] = NoPhysCall]
    /\ UNCHANGED <<ecsSide, lastOp, physVars, physCalls, updBodies, gravityUsed,
                   engVars, inputVars>>

\* The steps of goroutine p inside a physics method.
PhysStep(p) ==
    \/ PhysAcquire(p)
    \/ \E order \in Orders(DOMAIN bodies) : UpdateRange(p, order)
    \/ UpdateBody(p)
    \/ \E order \in Orders(CollisionCandidates(bodies)) : UpdateCollisions(p, order)
    \/ AddBodyStore(p)
    \/ RemoveBodyDelete(p)
    \/ GetBodyRead(p)
    \/ \E words \in {"XY", "X", "Y"} : SetGravityStore(p, words)
    \/ SetGravityRest(p)
    \/ PhysReturn(p)

NextPhysConc ==
    \/ \E p \in Callers, c \in PhysCalls : PhysBegin(p, c)
    \/ \E p \in Callers : PhysStep(p)

SpecPhysConc == InitPhysConcWorld /\ [][NextPhysConc]_vars

\* ---------------------------------------------------------- input manager
Keys == {"Space", "Escape"}

NoEvent == [key |-> "none", action |-> "none"]

KeyEvents == {NoEvent} \cup [key : Keys, action : {"Press", "Release"}]

\* The events the window can produce: a Press of a key that is up, a Release
\* of a key that is down, or nothing.
PendingEvents(down) ==
    {NoEvent}
    \cup {e \in KeyEvents : e.action = "Press" /\ e.key \in Keys \ down}
    \cup {e \in KeyEvents : e.action = "Release" /\ e.key \in down}

KeyDownAfter(down, event) ==
    IF event.action = "Press" THEN down \cup {event.key}
    ELSE IF event.action = "Release" THEN down \ {event.key}
    ELSE down

\* Manager.keyCallback: m.keys[key] = true on Press, false on Release.
keyCallbackKeys(ks, event) ==
    IF event.action = "Press" THEN MapSet(ks, event.key, TRUE)
    ELSE IF event.action = "Release" THEN MapSet(ks, event.key, FALSE)
    ELSE ks

\* The engine's key callback: Escape and Press.
ClosesWindow(event) == event.key = "Escape" /\ event.action = "Press"

\* Manager.Update, lines 54-56: prevKeys[key] = keys[key] for every key of keys.
ManagerUpdate(ks, prev) ==
    [key \in (DOMAIN prev) \cup (DOMAIN ks) |->
        IF key \in DOMAIN ks THEN ks[key] ELSE prev[key]]

\* m.keys[key]: false for a missing key.
KeyState(ks, key) == key \in DOMAIN ks /\ ks[key]

IsKeyPressed(ks, key) == KeyState(ks, key)

IsKeyJustPressed(ks, prev, key) == KeyState(ks, key) /\ ~KeyState(prev, key)

IsKeyJustReleased(ks, prev, key) == ~KeyState(ks, key) /\ KeyState(prev, key)

\* What a system calling the three queries during this dispatch gets.
KeyQueries(n, ks, prev) ==
    [frame |-> n,
     pressed |-> {key \in Keys : IsKeyPressed(ks, key)},
     justPressed |-> {key \in Keys : IsKeyJustPressed(ks, prev, key)},
     justReleased |-> {key \in Keys : IsKeyJustReleased(ks, prev, key)}]

\* ------------------------------------------------- SpecEngine: the frame loop
\* Seconds by which glfw.GetTime() has advanced when Run reads it again.
FrameTimes == {1, 2}

\* Run's loop condition, !e.window.ShouldClose() && e.running.
LoopContinuesIgnoreRunning(close, run) == ~close

LoopContinues(close, run) == ~close /\ run

\* The loop's stop condition.
StopCondition == shouldClose \/ ~running

NextPcRenderFirst(at) ==
    CASE at = "input" -> "physics"
      [] at = "physics" -> "render"
      [] at = "render" -> "ecs"
      [] at = "ecs" -> "poll"
      [] at = "poll" -> "swap"
      [] at = "swap" -> "top"

\* The statement after each call of the loop body: update's three calls,
\* render, PollEvents, SwapBuffers, and back to the loop condition.
NextPc(at) ==
    CASE at = "input" -> "physics"
      [] at = "physics" -> "ecs"
      [] at = "ecs" -> "render"
      [] at = "render" -> "poll"
      [] at = "poll" -> "swap"
      [] at = "swap" -> "top"

LogEntry(n, step, dt) == [frame |-> n, step |-> step, dt |-> dt]

\* Where the stop condition arose while the loop was running.
StopAtAfter(stops) ==
    IF stops /\ stopAt = NotStopped /\ engPc \notin {"init", "exited"} /\ ~StopCondition
    THEN [frame |-> frame, pc |-> engPc] ELSE stopAt

\* An engine after Init whose physics world holds one falling body and whose
\* ECS world has two systems registered.
InitEngineWorld ==
    /\ InitEcs(NewWorld, RegisteredSystems)
    /\ InitExt(Falling, DefaultGravity)

\* Run, lines 101-102.
RunEnter ==
    /\ engPc = "init"
    /\ running' = TRUE
    /\ lastTime' = clock
    /\ engPc' = "top"
    /\ UNCHANGED <<ecsSide, lastOp, physVars, physConcVars, shouldClose, clock,
                   frameDt, frame, frameLog, stopAt, inputVars>>

\* Run, lines 104-107: the loop condition holds and the frame time is taken.
FrameBegin(elapsed) ==
    /\ engPc = "top"
    /\ LoopContinues(shouldClose, running)
    /\ frame < MaxFrames
    /\ clock' = clock + elapsed
    /\ frameDt' = (clock + elapsed) - lastTime
    /\ lastTime' = clock + elapsed
    /\ frame' = frame + 1
    /\ engPc' = "input"
    /\ UNCHANGED <<ecsSide, lastOp, physVars, physConcVars, running, shouldClose,
                   frameLog, stopAt, inputVars>>

\* Run, line 104: the loop condition fails and Run returns.
RunExit ==
    /\ engPc = "top"
    /\ ~LoopContinues(shouldClose, running)
    /\ engPc' = "exited"
    /\ UNCHANGED <<ecsSide, lastOp, physVars, physConcVars, running, shouldClose,
                   clock, lastTime, frameDt, frame, frameLog, stopAt, inputVars>>

\* update, line 124: e.input.Update().
EngineInput ==
    /\ engPc = "input"
    /\ prevKeys' = ManagerUpdate(keys, prevKeys)
    /\ frameLog' = Append(frameLog, LogEntry(frame, "input", 0))
    /\ engPc' = NextPc("input")
    /\ UNCHANGED <<ecsSide, lastOp, physVars, physConcVars, running, shouldClose,
                   clock, lastTime, frameDt, frame, stopAt, keys, keyCallback,
                   keyDown, keyEvents, seen>>

\* update, line 127: e.physics.Update(deltaTime).
EnginePhysics(order) ==
    /\ engPc = "physics"
    /\ WholeUpdate(Rat(frameDt, 1), order)
    /\ frameLog' = Append(frameLog, LogEntry(frame, "physics", frameDt))
    /\ engPc' = NextPc("physics")
    /\ UNCHANGED <<ecsSide, lastOp, gravity, physConcVars, running, shouldClose,
                   clock, lastTime, frameDt, frame, stopAt, inputVars>>

\* update, line 130: e.ecs.Update(deltaTime), a whole pass over the systems.
EngineEcs ==
    /\ engPc = "ecs"
    /\ updStart' = systems
    /\ invoked' = PassSystems(systems, systems)
    /\ seen' = Append(seen, KeyQueries(frame, keys, prevKeys))
    /\ frameLog' = Append(frameLog, LogEntry(frame, "ecs", frameDt))
    /\ engPc' = NextPc("ecs")
    /\ UNCHANGED <<ecsVars, updVars, concVars, returned, destroyed, attached, lastOp,
                   physVars, physConcVars, running, shouldClose, clock, lastTime,
                   frameDt, frame, stopAt, keys, prevKeys, keyCallback, keyDown,
                   keyEvents>>

\* Run, line 113: e.render().
EngineRender ==
    /\ engPc = "render"
    /\ frameLog' = Append(frameLog, LogEntry(frame, "render", 0))
    /\ engPc' = NextPc("render")
    /\ UNCHANGED <<ecsSide, lastOp, physVars, physConcVars, running, shouldClose,
                   clock, lastTime, frameDt, frame, stopAt, inputVars>>

\* Run, line 116: glfw.PollEvents() hands the pending key event, if any, to
\* the callback in the window's slot: the input manager's keyCallback stores
\* the key's state, the engine's callback sets the close flag on an Escape
\* press.
PollEvents(event) ==
    /\ engPc = "poll"
    /\ event \in PendingEvents(keyDown)
    /\ keys' = IF keyCallback = "input" THEN keyCallbackKeys(keys, event) ELSE keys
    /\ shouldClose' = (shouldClose \/ (keyCallback = "engine" /\ ClosesWindow(event)))
    /\ stopAt' = StopAtAfter(keyCallback = "engine" /\ ClosesWindow(event))
    /\ keyDown' = KeyDownAfter(keyDown, event)
    /\ keyEvents' = IF event = NoEvent THEN keyEvents
                     ELSE Append(keyEvents, [frame |-> frame, key |-> event.key,
                                             action |-> event.action])
    /\ engPc' = NextPc("poll")
    /\ UNCHANGED <<ecsSide, lastOp, physVars, physConcVars, running, clock, lastTime,
                   frameDt, frame, frameLog, prevKeys, keyCallback, seen>>

\* Run, line 117: e.window.SwapBuffers().
SwapBuffers ==
    /\ engPc = "swap"
    /\ engPc' = NextPc("swap")
    /\ UNCHANGED <<ecsSide, lastOp, physVars, physConcVars, running, shouldClose,
                   clock, lastTime, frameDt, frame, frameLog, stopAt, inputVars>>

\* Shutdown, line 145: e.running = false, called at any point of the loop.
Shutdown ==
    /\ running' = FALSE
    /\ stopAt' = StopAtAfter(TRUE)
    /\ UNCHANGED <<ecsSide, lastOp, physVars, physConcVars, engPc, shouldClose, clock,
                   lastTime, frameDt, frame, frameLog, inputVars>>

\* The steps of the thread that called Run.
LoopThread ==
    \/ RunEnter
    \/ \E elapsed \in FrameTimes : FrameBegin(elapsed)
    \/ RunExit
    \/ EngineInput
    \/ \E order \in Orders(CollisionCandidates(bodies)) : EnginePhysics(order)
    \/ EngineEcs
    \/ EngineRender
    \/ \E event \in KeyEvents : PollEvents(event)
    \/ SwapBuffers

NextEngine ==
    \/ LoopThread
    \/ Shutdown

SpecEngine == InitEngineWorld /\ [][NextEngine]_vars

\* An engine after Init, or after Init followed by GetInput().Init(), which
\* registers the input manager's callbacks again.
InitInputWorld ==
    /\ InitEcs(NewWorld, RegisteredSystems)
    /\ InitPhys(<<>>, DefaultGravity)
    /\ InitRest
    /\ \E slot \in {EngineInitCallbacks, ManagerInit(EngineInitCallbacks)} : InitInput(slot)

SpecInput == InitInputWorld /\ [][NextEngine]_vars

\* The loop thread keeps running: every call of the loop body returns.
SpecEngineFair == SpecEngine /\ WF_vars(LoopThread)

\* ------------------------------- SpecAbsent: both worlds, no entity created
\* An ECS world, empty or holding entity 0, beside a physics world, empty or
\* holding one or two bodies.
InitAbsent ==
    /\ \E world \in InitWorlds : InitEcs(world, RegisteredSystems)
    /\ \E bs \in {<<>>, Falling, PairX} : InitExt(bs, DefaultGravity)

NextAbsent ==
    \/ \E entityID \in EntityIDs : DestroyEntity(entityID)
    \/ \E entityID \in EntityIDs, component \in Comps : AddComponent(entityID, component)
    \/ \E entityID \in EntityIDs, componentType \in Types :
          RemoveComponent(entityID, componentType)
    \/ \E id \in BodyIDs : RemoveBody(id)

SpecAbsent == InitAbsent /\ [][NextAbsent]_vars

\* ------------------------------------------------- SpecConc: method by step
\* A goroutine enters a method and reaches its Lock()/RLock() statement.
Begin(p, c) ==
    /\ pc[p] = "idle"
    /\ calls < MaxCalls
    /\ c.op = "AddComponent" => Len(ComponentList(components, c.type)) < MaxList
    /\ c.op = "CreateEntity" => nextEntityID < MaxEntities
    /\ pc' = [pc EXCEPT ![p] = "lock"]
    /\ call' = [call EXCEPT ![p] = c]
    /\ calls' = calls + 1
    /\ UNCHANGED <<ecsVars, updVars, histVars, mutexW, mutexR, local,
                   committed, observed>>
    /\ UNCHANGED extVars

\* w.mutex.Lock() / w.mutex.RLock() returns.
Acquire(p) ==
    /\ pc[p] = "lock"
    /\ CanAcquire(LockMode(call[p].op))
    /\ IF LockMode(call[p].op) = "Lock"
       THEN mutexW' = p /\ UNCHANGED mutexR
       ELSE mutexR' = mutexR \cup {p} /\ UNCHANGED mutexW
    /\ pc' = [pc EXCEPT ![p] = Entry(call[p].op)]
    /\ UNCHANGED <<ecsVars, updVars, histVars, call, local, calls,
                   committed, observed>>
    /\ UNCHANGED extVars

\* CreateEntity, lines 97-98.
CreateEntityAlloc(p) ==
    /\ pc[p] = "ce_alloc"
    /\ local' = [local EXCEPT ![p].entityID = AllocEntityID(entities, nextEntityID)]
    /\ nextEntityID' = nextEntityID + 1
    /\ pc' = [pc EXCEPT ![p] = "ce_store"]
    /\ UNCHANGED <<entities, components, systems, updVars, histVars, mutexW,
                   mutexR, call, calls, committed, observed>>
    /\ UNCHANGED extVars

\* CreateEntity, lines 100-106.
CreateEntityStore(p) ==
    /\ pc[p] = "ce_store"
    /\ entities' = MapSet(entities, local[p].entityID, NewEntity(local[p].entityID))
    /\ pc' = [pc EXCEPT ![p] = "unlock"]
    /\ UNCHANGED <<components, systems, nextEntityID, updVars, histVars,
                   mutexW, mutexR, call, local, calls, committed, observed>>
    /\ UNCHANGED extVars

\* DestroyEntity, line 115 and the start of the range over the entity's map.
DestroyEntityCheck(p) ==
    /\ pc[p] = "de_check"
    /\ IF call[p].id \in DOMAIN entities
       THEN /\ local' = [local EXCEPT ![p].types =
                             DOMAIN entities[call[p].id].Components]
            /\ pc' = [pc EXCEPT ![p] = "de_loop"]
       ELSE /\ pc' = [pc EXCEPT ![p] = "unlock"]
            /\ UNCHANGED local
    /\ UNCHANGED <<ecsVars, updVars, histVars, mutexW, mutexR, call, calls,
                   committed, observed>>
    /\ UNCHANGED extVars

\* DestroyEntity, lines 117-119: one iteration, in the map's arbitrary order.
DestroyEntityLoop(p) ==
    /\ pc[p] = "de_loop"
    /\ \E componentType \in local[p].types :
          /\ components' = removeComponentFromList(components, call[p].id, componentType)
          /\ local' = [local EXCEPT ![p].types = @ \ {componentType}]
    /\ UNCHANGED <<entities, systems, nextEntityID, updVars, histVars, mutexW,
                   mutexR, pc, call, calls, committed, observed>>
    /\ UNCHANGED extVars

\* DestroyEntity, line 122.
DestroyEntityDelete(p) ==
    /\ pc[p] = "de_loop"
    /\ local[p].types = {}
    /\ entities' = MapDelete(entities, call[p].id)
    /\ pc' = [pc EXCEPT ![p] = "unlock"]
    /\ UNCHANGED <<components, systems, nextEntityID, updVars, histVars,
                   mutexW, mutexR, call, local, calls, committed, observed>>
    /\ UNCHANGED extVars

\* AddComponent, lines 131-133.
AddComponentSet(p) ==
    /\ pc[p] = "ac_set"
    /\ entities' = AddComponentEntities(entities, call[p].id, call[p].comp)
    /\ pc' = [pc EXCEPT ![p] = IF call[p].id \in DOMAIN entities
                               THEN "ac_append" ELSE "unlock"]
    /\ UNCHANGED <<components, systems, nextEntityID, updVars, histVars,
                   mutexW, mutexR, call, local, calls, committed, observed>>
    /\ UNCHANGED extVars

\* AddComponent, lines 136-139.
AddComponentAppend(p) ==
    /\ pc[p] = "ac_append"
    /\ components' = MapSet(components, call[p].type,
                            Append(ComponentList(components, call[p].type), call[p].comp))
    /\ pc' = [pc EXCEPT ![p] = "unlock"]
    /\ UNCHANGED <<entities, systems, nextEntityID, updVars, histVars,
                   mutexW, mutexR, call, local, calls, committed, observed>>
    /\ UNCHANGED extVars

\* RemoveComponent, lines 148-150.
RemoveComponentDelete(p) ==
    /\ pc[p] = "rc_delete"
    /\ entities' = RemoveComponentEntities(entities, call[p].id, call[p].type)
    /\ pc' = [pc EXCEPT ![p] =
                 IF /\ call[p].id \in DOMAIN entities
                    /\ call[p].type \in DOMAIN entities[call[p].id].Components
                 THEN "rc_list" ELSE "unlock"]
    /\ UNCHANGED <<components, systems, nextEntityID, updVars, histVars,
                   mutexW, mutexR, call, local, calls, committed, observed>>
    /\ UNCHANGED extVars

\* RemoveComponent, line 151.
RemoveComponentList(p) ==
    /\ pc[p] = "rc_list"
    /\ components' = removeComponentFromList(components, call[p].id, call[p].type)
    /\ pc' = [pc EXCEPT ![p] = "unlock"]
    /\ UNCHANGED <<entities, systems, nextEntityID, updVars, histVars,
                   mutexW, mutexR, call, local, calls, committed, observed>>
    /\ UNCHANGED extVars

\* GetComponent, lines 161-164: the read, with what it would have returned
\* in the state the last completed write left.
GetComponentRead(p) ==
    /\ pc[p] = "gc_read"
    /\ observed' = [observed EXCEPT ![p] =
          [method |-> "GetComponent",
           result |-> GetComponent(call[p].id, call[p].type),
           expect |-> GetComponentIn(committed.entities, call[p].id, call[p].type),
           clean |-> World = committed]]
    /\ pc' = [pc EXCEPT ![p] = "unlock"]
    /\ UNCHANGED <<ecsVars, updVars, histVars, mutexW, mutexR, call, local,
                   calls, committed>>
    /\ UNCHANGED extVars

\* GetEntitiesWithComponent, lines 172-178.
GetEntitiesWithComponentRead(p) ==
    /\ pc[p] = "ge_read"
    /\ observed' = [observed EXCEPT ![p] =
          [method |-> "GetEntitiesWithComponent",
           result |-> GetEntitiesWithComponent(call[p].type),
           expect |-> GetEntitiesWithComponentIn(committed.entities,
                                                 committed.components, call[p].type),
           clean |-> World = committed]]
    /\ pc' = [pc EXCEPT ![p] = "unlock"]
    /\ UNCHANGED <<ecsVars, updVars, histVars, mutexW, mutexR, call, local,
                   calls, committed>>
    /\ UNCHANGED extVars

\* The deferred Unlock()/RUnlock() and the return.
Return(p) ==
    /\ pc[p] = "unlock"
    /\ IF LockMode(call[p].op) = "Lock"
       THEN /\ mutexW' = (IF mutexW = p THEN "none" ELSE mutexW)
            /\ UNCHANGED mutexR
       ELSE /\ mutexR' = mutexR \ {p}
            /\ UNCHANGED mutexW
    /\ committed' = IF call[p].op \in Writers THEN World ELSE committed
    /\ pc' = [pc EXCEPT ![p] = "idle"]
    /\ call' = [call EXCEPT ![p] = NoCall]
    /\ local' = [local EXCEPT ![p] = NoLocal]
    /\ observed' = [observed EXCEPT ![p] = NoObs]
    /\ UNCHANGED <<ecsVars, updVars, histVars, calls>>
    /\ UNCHANGED extVars

NextConc ==
    \/ \E p \in Callers, c \in ConcCalls : Begin(p, c)
    \/ \E p \in Callers : Acquire(p)
    \/ \E p \in Callers : CreateEntityAlloc(p)
    \/ \E p \in Callers : CreateEntityStore(p)
    \/ \E p \in Callers : DestroyEntityCheck(p)
    \/ \E p \in Callers : DestroyEntityLoop(p)
    \/ \E p \in Callers : DestroyEntityDelete(p)
    \/ \E p \in Callers : AddComponentSet(p)
    \/ \E p \in Callers : AddComponentAppend(p)
    \/ \E p \in Callers : RemoveComponentDelete(p)
    \/ \E p \in Callers : RemoveComponentList(p)
    \/ \E p \in Callers : GetComponentRead(p)
    \/ \E p \in Callers : GetEntitiesWithComponentRead(p)
    \/ \E p \in Callers : Return(p)

SpecConc == InitConc /\ [][NextConc]_vars

\* ------------------------- SpecCallback: Update by statement, with callbacks
\* The goroutine that calls Update and so runs the system callbacks.
Updater == "g1"

\* The calls a callback can make on the system methods.
SysCalls ==
    {Op("AddSystem", -1, "", sys, GetName(sys)) : sys \in Systems}
    \cup {Op("RemoveSystem", -1, "", NilComp, name) : name \in SysNames}

UpdateHoldsLockDeferred(at) == at \in {"copy", "loop", "callback"}

\* Update, lines 204-207: the statements at which Update holds the read lock.
UpdateHoldsLock(at) == at = "copy"

\* Update is called and reaches w.mutex.RLock().
ConcUpdateBegin ==
    /\ updPc = "idle"
    /\ pc[Updater] = "idle"
    /\ calls < MaxCalls
    /\ updPc' = "rlock"
    /\ calls' = calls + 1
    /\ lastOp' = Op("UpdateBegin", -1, "", NilComp, "")
    /\ UNCHANGED <<ecsVars, updSystems, updIdx, returned, destroyed, attached, updStart,
                   invoked, mutexW, mutexR, pc, call, local, committed, observed>>
    /\ UNCHANGED extVars

\* Update, line 204: RLock() returns.
ConcUpdateRLock ==
    /\ updPc = "rlock"
    /\ CanAcquire("RLock")
    /\ mutexR' = mutexR \cup {"Update"}
    /\ updPc' = "copy"
    /\ UNCHANGED <<ecsVars, updSystems, updIdx, histVars, mutexW, pc, call, local,
                   calls, committed, observed>>
    /\ UNCHANGED extVars

\* Update, lines 205-207: the copy of w.systems and RUnlock().
ConcUpdateCopy ==
    /\ updPc = "copy"
    /\ updSystems' = systems
    /\ updIdx' = 0
    /\ updStart' = systems
    /\ invoked' = <<>>
    /\ mutexR' = IF UpdateHoldsLock("loop") THEN mutexR ELSE mutexR \ {"Update"}
    /\ updPc' = "loop"
    /\ UNCHANGED <<ecsVars, returned, destroyed, attached, lastOp, mutexW, pc, call,
                   local, calls, committed, observed>>
    /\ UNCHANGED extVars

\* Update, lines 209-210: system.Update(deltaTime, w) is entered.
ConcUpdateInvoke ==
    /\ updPc = "loop"
    /\ updIdx < Len(PassSystems(updSystems, systems))
    /\ invoked' = Append(invoked, PassSystems(updSystems, systems)[updIdx + 1])
    /\ updIdx' = updIdx + 1
    /\ updPc' = "callback"
    /\ lastOp' = Op("UpdateInvoke", -1, "", NilComp,
                    GetName(PassSystems(updSystems, systems)[updIdx + 1]))
    /\ UNCHANGED <<ecsVars, updSystems, returned, destroyed, attached, updStart,
                   concVars>>
    /\ UNCHANGED extVars

\* The callback calls an entity or component method of the world.
CallbackCall(c) ==
    /\ updPc = "callback"
    /\ Begin(Updater, c)

\* The callback calls AddSystem or RemoveSystem and reaches its Lock().
CallbackSysBegin(c) ==
    /\ updPc = "callback"
    /\ pc[Updater] = "idle"
    /\ calls < MaxCalls
    /\ c.op = "AddSystem" => Len(systems) < MaxSystems
    /\ pc' = [pc EXCEPT ![Updater] = "sys_lock"]
    /\ call' = [call EXCEPT ![Updater] = c]
    /\ calls' = calls + 1
    /\ UNCHANGED <<ecsVars, updVars, histVars, mutexW, mutexR, local, committed,
                   observed>>
    /\ UNCHANGED extVars

\* AddSystem / RemoveSystem: Lock() returns.
CallbackSysAcquire ==
    /\ pc[Updater] = "sys_lock"
    /\ CanAcquire("Lock")
    /\ mutexW' = Updater
    /\ pc' = [pc EXCEPT ![Updater] = "sys_body"]
    /\ UNCHANGED <<ecsVars, updVars, histVars, mutexR, call, local, calls, committed,
                   observed>>
    /\ UNCHANGED extVars

\* AddSystem, line 186; RemoveSystem, lines 194-199; the deferred Unlock().
CallbackSysBody ==
    /\ pc[Updater] = "sys_body"
    /\ systems' = IF call[Updater].op = "AddSystem"
                  THEN Append(systems, call[Updater].comp)
                  ELSE RemoveSystemList(systems, call[Updater].name)
    /\ mutexW' = "none"
    /\ pc' = [pc EXCEPT ![Updater] = "idle"]
    /\ call' = [call EXCEPT ![Updater] = NoCall]
    /\ lastOp' = Op(call[Updater].op, -1, "", NilComp, "")
    /\ UNCHANGED <<entities, components, nextEntityID, updVars, returned, destroyed,
                   attached, updStart, invoked, mutexR, local, calls, committed,
                   observed>>
    /\ UNCHANGED extVars

\* The callback returns to the loop of Update.
CallbackReturn ==
    /\ updPc = "callback"
    /\ pc[Updater] = "idle"
    /\ updPc' = "loop"
    /\ UNCHANGED <<ecsVars, updSystems, updIdx, histVars, concVars>>
    /\ UNCHANGED extVars

\* Update, line 212: the loop is over and Update returns.
ConcUpdateReturn ==
    /\ updPc = "loop"
    /\ updIdx >= Len(PassSystems(updSystems, systems))
    /\ updPc' = "idle"
    /\ updSystems' = <<>>
    /\ updIdx' = 0
    /\ mutexR' = mutexR \ {"Update"}
    /\ lastOp' = Op("UpdateReturn", -1, "", NilComp, "")
    /\ UNCHANGED <<ecsVars, returned, destroyed, attached, updStart, invoked, mutexW,
                   pc, call, local, calls, committed, observed>>
    /\ UNCHANGED extVars

\* The statements of the methods a callback has entered.
CallbackStep ==
    \/ Acquire(Updater)
    \/ CreateEntityAlloc(Updater)
    \/ CreateEntityStore(Updater)
    \/ DestroyEntityCheck(Updater)
    \/ DestroyEntityLoop(Updater)
    \/ DestroyEntityDelete(Updater)
    \/ AddComponentSet(Updater)
    \/ AddComponentAppend(Updater)
    \/ RemoveComponentDelete(Updater)
    \/ RemoveComponentList(Updater)
    \/ GetComponentRead(Updater)
    \/ GetEntitiesWithComponentRead(Updater)
    \/ Return(Updater)
    \/ CallbackSysAcquire
    \/ CallbackSysBody

NextCallback ==
    \/ ConcUpdateBegin
    \/ ConcUpdateRLock
    \/ ConcUpdateCopy
    \/ ConcUpdateInvoke
    \/ \E c \in ConcCalls : CallbackCall(c)
    \/ \E c \in SysCalls : CallbackSysBegin(c)
    \/ CallbackStep
    \/ CallbackReturn
    \/ ConcUpdateReturn

InitCallback == InitWith(NewWorld, RegisteredSystems)

SpecCallback == InitCallback /\ [][NextCallback]_vars

\* The goroutine runs: a statement that can execute does.
SpecCallbackFair == SpecCallback /\ WF_vars(NextCallback)

\* ------------------------------------------------------------------ claims
Live == Range(returned) \ destroyed

\* C1: the IDs returned by CreateEntity are strictly increasing in call
\* order, so none is returned twice, also after DestroyEntity calls.
C1_IdsStrictlyIncreasing ==
    \A i, j \in 1..Len(returned) : i < j => returned[i] < returned[j]

\* An entity was destroyed and a later CreateEntity returned a further ID.
C1_Witness ==
    /\ lastOp.op = "CreateEntity"
    /\ Len(returned) >= 2
    /\ destroyed # {}
    /\ lastOp.id = returned[Len(returned)]

\* C2: GetComponent(e, T) returns the component of the most recent
\* AddComponent(e, c) of type T on the live entity e, as long as no
\* RemoveComponent(e, T) or DestroyEntity(e) came after it.
C2_GetReturnsLatestAdd ==
    \A k \in DOMAIN attached : GetComponent(k[1], k[2]) = attached[k]

\* A second AddComponent of the same type on the only entity replaced the first.
C2_Witness ==
    /\ lastOp.op = "AddComponent"
    /\ Len(returned) = 1
    /\ lastOp.id \in DOMAIN entities
    /\ Len(ComponentList(components, lastOp.type)) >= 2
    /\ components[lastOp.type][1] # GetComponent(lastOp.id, lastOp.type)
    /\ components[lastOp.type][2] = GetComponent(lastOp.id, lastOp.type)

C4_QueryIsExactlyLiveHolders ==
    \A componentType \in Types :
        GetEntitiesWithComponent(componentType) =
            {entityID \in Live : <<entityID, componentType>> \in DOMAIN attached}

\* A live holder whose component is missing from the global list while the
\* list holds another entry.
C4_Witness ==
    \E componentType \in Types : \E entityID \in GetEntitiesWithComponent(componentType) :
        /\ Len(ComponentList(components, componentType)) >= 1
        /\ \A i \in 1..Len(components[componentType]) :
              components[componentType][i] # GetComponent(entityID, componentType)

\* C9 (as claimed): DestroyEntity of an existing entity takes the component
\* instances the entity held out of the global lists and keeps the entries of
\* the other live entities.
C9_DestroyRemovesOwnEntries ==
    [][\A entityID \in DOMAIN entities :
         (lastOp'.op = "DestroyEntity" /\ lastOp'.id = entityID) =>
            \A componentType \in DOMAIN entities[entityID].Components :
               /\ entities[entityID].Components[componentType]
                     \notin Range(ComponentList(components', componentType))
               /\ \A other \in DOMAIN entities' :
                     (/\ componentType \in DOMAIN entities[other].Components
                      /\ entities[other].Components[componentType]
                            \in Range(components[componentType]))
                     => entities[other].Components[componentType]
                            \in Range(ComponentList(components', componentType))]_vars

\* C10: RemoveComponent(id, T) on a live entity holding T makes
\* GetComponent(id, T) absent, drops exactly the first entry of T's global
\* list, and leaves the other entities' maps, the other types' lists and the
\* system list unchanged.
C10_RemoveComponentEffect ==
    [][\A entityID \in DOMAIN entities : \A componentType \in Types :
         (/\ lastOp'.op = "RemoveComponent"
          /\ lastOp'.id = entityID
          /\ lastOp'.type = componentType
          /\ componentType \in DOMAIN entities[entityID].Components)
         => /\ GetComponentIn(entities', entityID, componentType) = NilComp
            /\ Len(components[componentType]) >= 1
            /\ components'[componentType] = Tail(components[componentType])
            /\ DOMAIN entities' = DOMAIN entities
            /\ \A other \in DOMAIN entities \ {entityID} :
                  entities'[other] = entities[other]
            /\ DOMAIN components' = DOMAIN components
            /\ \A otherType \in DOMAIN components \ {componentType} :
                  components'[otherType] = components[otherType]
            /\ systems' = systems]_vars

\* A removal that left another entity's component map, another type's list
\* and a non-empty system list in place, and took the other entity's entry.
C10_Witness ==
    /\ lastOp.op = "RemoveComponent"
    /\ lastOp.id \in DOMAIN entities
    /\ lastOp.type \notin DOMAIN entities[lastOp.id].Components
    /\ \E other \in DOMAIN entities \ {lastOp.id} :
          /\ lastOp.type \in DOMAIN entities[other].Components
          /\ ComponentList(components, lastOp.type) # <<>>
          /\ entities[other].Components[lastOp.type] \notin Range(components[lastOp.type])
    /\ \E otherType \in DOMAIN components \ {lastOp.type} : components[otherType] # <<>>
    /\ systems # <<>>

Names(syss) == {GetName(syss[i]) : i \in 1..Len(syss)}

\* C6: one Update pass invokes exactly the systems registered when the call
\* started, once each and in registration order; AddSystem and RemoveSystem
\* during the pass change nothing of it.
C6_PassRunsStartSnapshot ==
    /\ updPc = "loop" =>
          /\ updIdx <= Len(updStart)
          /\ invoked = SubSeq(updStart, 1, updIdx)
    /\ lastOp.op = "UpdateReturn" => invoked = updStart

\* A pass over two systems has returned although the list was changed
\* during the pass.
C6_Witness ==
    /\ lastOp.op = "UpdateReturn"
    /\ Len(updStart) = 2
    /\ invoked = updStart
    /\ Len(systems) < 2

\* C7 (as claimed): after RemoveSystem(name) no registered system reports
\* the name, also when several did, and the others keep their order.
C7_RemoveSystemFiltersName ==
    [][\A systemName \in SysNames :
         (lastOp'.op = "RemoveSystem" /\ lastOp'.name = systemName) =>
            /\ systemName \notin Names(systems')
            /\ systems' = SelectSeq(systems, LAMBDA sys : GetName(sys) # systemName)]_vars

\* C8: RemoveSystem with a name no registered system reports leaves the
\* system list, its order and count, the entities and the components as
\* they were.
C8_RemoveAbsentIsNoOp ==
    [][\A systemName \in SysNames :
         (/\ lastOp'.op = "RemoveSystem"
          /\ lastOp'.name = systemName
          /\ systemName \notin Names(systems))
         => /\ systems' = systems
            /\ Len(systems') = GetSystemCount
            /\ entities' = entities
            /\ components' = components
            /\ nextEntityID' = nextEntityID]_vars

\* RemoveSystem("C") on a world with two systems and a populated entity
\* table ("C" is never registered).
C8_Witness ==
    /\ lastOp.op = "RemoveSystem"
    /\ lastOp.name = "C"
    /\ Len(systems) = 2
    /\ entities # <<>>
    /\ components # <<>>

\* C5: a GetComponent or GetEntitiesWithComponent that runs concurrently
\* with writers reads a world in which no write is part-way done, and returns
\* what the state left by the last completed write gives.
C5_ReadsSeeOnlyCompletedWrites ==
    \A p \in Callers :
        observed[p].method # "none" =>
            /\ observed[p].clean
            /\ observed[p].result = observed[p].expect

\* A GetComponent has read an attached component while another goroutine's
\* DestroyEntity of the same entity is in flight, waiting for the lock.
C5_Witness ==
    \E p \in Callers, q \in Callers :
        /\ p # q
        /\ observed[p].method = "GetComponent"
        /\ observed[p].result # NilComp
        /\ pc[q] = "lock"
        /\ call[q].op = "DestroyEntity"
        /\ call[q].id = call[p].id

\* ---------------------------------------------------------- physics claims
\* A step of the physics Update.
PhysicsStep == lastOp'.op = "physics.Update"

HalfWidths(body1, body2) == RatDiv(RatAdd(body1.Width, body2.Width), Two)

CenterDistance(body1, body2) == Length(Sub(body2.Position, body1.Position))

\* C12: an active body of mass zero has the same position and velocity after
\* a physics Update as before it, whatever the gravity, the frame time, its
\* velocity and its accumulated force.
C12_ZeroMassBodyKeepsPositionAndVelocity ==
    [][PhysicsStep =>
        \A id \in DOMAIN bodies :
            (bodies[id].Active /\ bodies[id].Mass = Zero) =>
                /\ bodies'[id].Position = bodies[id].Position
                /\ bodies'[id].Velocity = bodies[id].Velocity]_vars

\* The case of C13 for body1 left of body2: two active bodies of equal
\* non-zero mass at the same height, closer in X than half the sum of widths.
C13_Case(body1, body2) ==
    /\ body1.Mass = body2.Mass
    /\ body1.Mass # Zero
    /\ body1.Position.Y = body2.Position.Y
    /\ RatLt(body1.Position.X, body2.Position.X)
    /\ RatLt(RatSub(body2.Position.X, body1.Position.X), HalfWidths(body1, body2))

C13_Amount(body1, body2) ==
    RatDiv(RatSub(HalfWidths(body1, body2),
                  RatSub(body2.Position.X, body1.Position.X)), Two)

C14_MovableTakesWholeOverlap ==
    [][PhysicsStep =>
        \A id1, id2 \in CollisionCandidates(physMid') :
            (/\ CollisionCandidates(physMid') = {id1, id2}
             /\ RatLt(Zero, physMid'[id1].InverseMass)
             /\ physMid'[id2].InverseMass = Zero
             /\ checkCollision(physMid'[id1], physMid'[id2])
             /\ RatLt(Zero, Overlap(physMid'[id1], physMid'[id2]))) =>
                /\ bodies'[id2].Position = physMid'[id2].Position
                /\ CenterDistance(bodies'[id1], bodies'[id2]) =
                      HalfWidths(physMid'[id1], physMid'[id2])]_vars

\* C15: two coincident movable bodies of positive width are resolved along
\* +X with overlap (w1+w2)/2: the first body of the pair moves by (w1+w2)/4
\* toward -X and the second by (w1+w2)/4 toward +X.
C15_CoincidentBodiesPushedApart ==
    [][PhysicsStep =>
        ((/\ Len(physOrder') = 2
         /\ physMid'[physOrder'[1]].Position = physMid'[physOrder'[2]].Position
         /\ RatLt(Zero, physMid'[physOrder'[1]].InverseMass)
         /\ RatLt(Zero, physMid'[physOrder'[2]].InverseMass)
         /\ RatLt(Zero, physMid'[physOrder'[1]].Width)
         /\ RatLt(Zero, physMid'[physOrder'[2]].Width)) =>
            /\ bodies'[physOrder'[1]].Position =
                  Sub(physMid'[physOrder'[1]].Position,
                      Vector2(RatDiv(HalfWidths(physMid'[physOrder'[1]],
                                                physMid'[physOrder'[2]]), Two), Zero))
            /\ bodies'[physOrder'[2]].Position =
                  Add(physMid'[physOrder'[2]].Position,
                      Vector2(RatDiv(HalfWidths(physMid'[physOrder'[1]],
                                                physMid'[physOrder'[2]]), Two), Zero)))]_vars

\* The body collides with no other collected body after integration.
CollidesWithNothing(bs, id) ==
    \A other \in CollisionCandidates(bs) \ {id} : ~checkCollision(bs[id], bs[other])

C16_Velocity(body, g, deltaTime) ==
    Add(body.Velocity,
        Mul(Mul(Add(body.Force, Mul(g, body.Mass)), deltaTime), RatDiv(One, body.Mass)))

\* C16: an active body of mass m > 0 that collides with nothing leaves Update
\* with velocity v + (force + gravity*m)*dt*(1/m), position p + v'*dt for
\* that new velocity v', and force zero.
C16_IntegrationOfFreeBody ==
    [][PhysicsStep =>
        \A id \in CollisionCandidates(bodies) :
            (RatLt(Zero, bodies[id].Mass) /\ CollidesWithNothing(physMid', id)) =>
                /\ bodies'[id].Velocity = C16_Velocity(bodies[id], gravity, physDt')
                /\ bodies'[id].Position =
                      Add(bodies[id].Position,
                          Mul(C16_Velocity(bodies[id], gravity, physDt'), physDt'))
                /\ bodies'[id].Force = VZero]_vars

\* The example of C16: mass 1 at rest at the origin, gravity (0, -9.81),
\* Update(1/60) gives the velocity (0, -9.81/60).
C16_Witness ==
    /\ lastOp.op = "physics.Update"
    /\ physPre = Falling
    /\ physG = DefaultGravity
    /\ physDt = Rat(1, 60)
    /\ bodies[1].Velocity = Vector2(Zero, Rat(-981, 6000))
    /\ bodies[1].Position = Vector2(Zero, Rat(-981, 360000))
    /\ bodies[1].Force = VZero

ActiveOnly(bs) == [id \in {i \in DOMAIN bs : bs[i].Active} |-> bs[id]]

\* C17: an inactive body is completely unchanged by Update and takes no part
\* in collisions: the active bodies end where they would without it.
C17_InactiveBodyUntouched ==
    [][PhysicsStep =>
        /\ \A id \in DOMAIN bodies : ~bodies[id].Active => bodies'[id] = bodies[id]
        /\ ActiveOnly(bodies') \in
              {checkCollisions(Integrate(ActiveOnly(bodies), gravity, physDt'), order) :
                  order \in Orders(DOMAIN ActiveOnly(bodies))}]_vars

C17_Witness ==
    /\ lastOp.op = "physics.Update"
    /\ \E id, other \in DOMAIN physPre :
          /\ ~physPre[id].Active
          /\ physPre[id].Velocity # VZero
          /\ physPre[id].Force # VZero
          /\ physPre[other].Active
          /\ checkCollision(physMid[id], physMid[other])
          /\ id \in DOMAIN bodies
          /\ bodies[id] = physPre[id]
          /\ other \in DOMAIN bodies
          /\ bodies[other] = physMid[other]

\* ----------------------------------------------------- absent-target claims
\* Everything the two worlds hold.
WorldState == <<entities, components, systems, nextEntityID, bodies, gravity>>

\* C11: AddComponent, RemoveComponent and DestroyEntity on an unknown entity
\* ID, RemoveComponent of a type the entity does not hold, and RemoveBody on
\* an unknown body ID leave entities, component lists, systems, next ID,
\* bodies and gravity unchanged; GetComponent and GetBody on an unknown ID
\* return the absent value.
C11_AbsentTargetChangesNothing ==
    /\ [](/\ \A entityID \in EntityIDs \ DOMAIN entities : \A componentType \in Types :
               GetComponent(entityID, componentType) = NilComp
          /\ \A id \in BodyIDs \ DOMAIN bodies : GetBody(id) = NilBody)
    /\ [][/\ (/\ lastOp'.op \in {"AddComponent", "RemoveComponent", "DestroyEntity"}
              /\ lastOp'.id \notin DOMAIN entities) => UNCHANGED WorldState
          /\ (/\ lastOp'.op = "RemoveComponent"
              /\ lastOp'.id \in DOMAIN entities
              /\ lastOp'.type \notin DOMAIN entities[lastOp'.id].Components)
                => UNCHANGED WorldState
          /\ (/\ lastOp'.op = "RemoveBody"
              /\ lastOp'.id \notin DOMAIN bodies) => UNCHANGED WorldState]_vars

\* Both worlds populated, after an operation on a destroyed entity.
C11_Witness ==
    /\ lastOp.op \in {"AddComponent", "RemoveComponent"}
    /\ lastOp.id \in destroyed
    /\ lastOp.id \notin DOMAIN entities
    /\ \E componentType \in Types : Len(ComponentList(components, componentType)) > 0
    /\ systems # <<>>
    /\ DOMAIN bodies = {1}
    /\ physPre = PairX

\* ------------------------------------------------ physics concurrency claims
InUpdate(p) ==
    physCall[p].op = "Update" /\ physPc[p] \in {"up_range", "up_body", "unlock"}

InLockedCall(p) ==
    /\ physCall[p].op \in {"AddBody", "RemoveBody", "GetBody"}
    /\ physPc[p] \in {"ab_store", "rb_delete", "gb_read", "unlock"}

\* C18: SetGravity is not excluded by an Update in progress (a SetGravity
\* that has been called can always take its next step, and gravity changes
\* while another goroutine is inside Update), whereas AddBody, RemoveBody and
\* GetBody are never inside their locked region while an Update is.
C18_OnlySetGravityOverlapsUpdate ==
    /\ [](\A p, q \in Callers : ~(InUpdate(p) /\ InLockedCall(q)))
    /\ [](\A p \in Callers :
             (physCall[p].op = "SetGravity" /\ physPc[p] # "idle") => ENABLED PhysStep(p))

\* An Update that integrated two bodies with two different gravity vectors.
C18_Witness ==
    \E p \in Callers :
        /\ physCall[p].op = "Update"
        /\ physPc[p] = "unlock"
        /\ DOMAIN gravityUsed = {1, 2}
        /\ gravityUsed[1] # gravityUsed[2]
        /\ bodies[1].Velocity # bodies[2].Velocity

\* C28: from the Lock() of an Update to its return the table holds the same
\* bodies: those ranged over for integration are those in the table when the
\* collisions are checked, and no AddBody, RemoveBody or GetBody is past its
\* lock in between.
C28_TableFixedDuringUpdate ==
    /\ [][\A p \in Callers :
             (InUpdate(p) /\ InUpdate(p)') => DOMAIN bodies' = DOMAIN bodies]_vars
    /\ [](\A p \in Callers :
             (InUpdate(p) /\ physPc[p] # "up_range") =>
                 /\ DOMAIN physPre = DOMAIN bodies
                 /\ Range(updBodies) \subseteq DOMAIN bodies)
    /\ [](\A p \in Callers :
             (InUpdate(p) /\ physPc[p] = "unlock") => DOMAIN physMid = DOMAIN physPre)
    /\ [](\A p, q \in Callers :
             InUpdate(p) => physPc[q] \notin {"ab_store", "rb_delete", "gb_read"})

\* An Update has checked the collisions of the bodies it integrated while an
\* AddBody of a further body waits at its Lock().
C28_Witness ==
    \E p, q \in Callers :
        /\ InUpdate(p)
        /\ physPc[p] = "unlock"
        /\ physCall[q].op = "AddBody"
        /\ physPc[q] = "lock"
        /\ physCall[q].id \notin DOMAIN bodies
        /\ DOMAIN physMid = {1, 2}

\* ------------------------------------------------------------- engine claims
FrameSteps == <<"input", "physics", "ecs", "render">>

\* C19: the loop's calls are, frame after frame, input refresh, physics
\* Update(dt), ECS Update(dt), render, each once per frame and in this order,
\* with physics and ECS given the same dt; a frame's calls are all made
\* before the next frame's first.
C19_FrameOrder ==
    /\ \A i \in 1..Len(frameLog) :
          /\ frameLog[i].step = FrameSteps[((i - 1) % 4) + 1]
          /\ frameLog[i].frame = ((i - 1) \div 4) + 1
          /\ frameLog[i].step = "ecs" => frameLog[i].dt = frameLog[i - 1].dt
          /\ frameLog[i].step = "physics" => frameLog[i].dt \in FrameTimes
    /\ engPc \in {"init", "top", "exited"} => Len(frameLog) = 4 * frame
    /\ engPc = "input" => Len(frameLog) = 4 * (frame - 1)
    /\ engPc = "render" => Len(frameLog) = 4 * (frame - 1) + 3
    /\ engPc \in {"poll", "swap"} => Len(frameLog) = 4 * frame

\* Two whole frames with different frame times.
C19_Witness ==
    /\ Len(frameLog) = 8
    /\ frameLog[2].dt # frameLog[6].dt
    /\ frameLog[7] = LogEntry(2, "ecs", frameLog[6].dt)
    /\ frameLog[8].step = "render"
    /\ invoked = RegisteredSystems
    /\ ticks = 2

RECURSIVE SeenBefore(_, _, _)
SeenBefore(mid, pairs, k) ==
    IF k = 1 THEN mid
    ELSE LET before == SeenBefore(mid, pairs, k - 1)
             p == pairs[k - 1]
         IN IF checkCollision(before[p[1]], before[p[2]])
            THEN resolveCollision(before, p[1], p[2])
            ELSE before

TestsOf(pairs, id1, id2) == {k \in DOMAIN pairs : {pairs[k][1], pairs[k][2]} = {id1, id2}}

\* C22: in each physics Update every two distinct active bodies are tested
\* for overlap exactly once, no tested pair contains an inactive body or the
\* same body twice, and each test and resolution reads the positions the
\* earlier resolutions of the tick left.
C22_EachActivePairOnceInSequence ==
    [][PhysicsStep =>
        LET pairs == Pairs(physOrder')
            mid == physMid'
        IN /\ \A id1, id2 \in DOMAIN mid :
                 (id1 # id2 /\ mid[id1].Active /\ mid[id2].Active) =>
                     Cardinality(TestsOf(pairs, id1, id2)) = 1
           /\ \A k \in DOMAIN pairs :
                 /\ pairs[k][1] # pairs[k][2]
                 /\ mid[pairs[k][1]].Active
                 /\ mid[pairs[k][2]].Active
           /\ bodies' = SeenBefore(mid, pairs, Len(pairs) + 1)]_vars

\* An Update of three active bodies and an inactive one in which a pair was
\* resolved on positions an earlier resolution of the tick had changed.
C22_Witness ==
    /\ ticks > 0
    /\ Cardinality(CollisionCandidates(physMid)) = 3
    /\ \E id \in DOMAIN physMid : ~physMid[id].Active
    /\ \E k \in 2..Len(Pairs(physOrder)) :
          LET before == SeenBefore(physMid, Pairs(physOrder), k)
              p == Pairs(physOrder)[k]
          IN /\ before # physMid
             /\ checkCollision(before[p[1]], before[p[2]])
             /\ resolveCollision(before, p[1], p[2]) # resolveCollision(physMid, p[1], p[2])

NotPositive(mass) == ~RatLt(Zero, mass)

AtRest(body) == body.Velocity = VZero /\ body.Force = VZero

\* C23: a body of mass <= 0 has inverse mass 0, a body of mass > 0 has
\* inverse mass 1/mass, and an Update leaves a body of mass <= 0 that is at
\* rest at its position and at rest, whatever the gravity and the overlaps.
C23_NonPositiveMassIsImmovable ==
    /\ [](\A id \in DOMAIN bodies :
             /\ NotPositive(bodies[id].Mass) => bodies[id].InverseMass = Zero
             /\ RatLt(Zero, bodies[id].Mass) =>
                   bodies[id].InverseMass = RatDiv(One, bodies[id].Mass))
    /\ [][PhysicsStep =>
            \A id \in DOMAIN bodies :
                (NotPositive(bodies[id].Mass) /\ AtRest(bodies[id])) =>
                    /\ bodies'[id].Position = bodies[id].Position
                    /\ AtRest(bodies'[id])]_vars

\* An Update under gravity that pushed a movable body out of a body of
\* negative mass, which was at rest before and is where it was.
C23_Witness ==
    /\ ticks > 0
    /\ physG # VZero
    /\ \E id1, id2 \in DOMAIN physPre :
          /\ id1 \in DOMAIN bodies /\ id2 \in DOMAIN bodies
          /\ RatLt(physPre[id1].Mass, Zero)
          /\ AtRest(physPre[id1])
          /\ RatLt(Zero, physPre[id2].Mass)
          /\ checkCollision(physMid[id1], physMid[id2])
          /\ bodies[id2].Position # physMid[id2].Position
          /\ bodies[id1].Position = physPre[id1].Position
          /\ bodies[id1].Velocity = VZero

\* C27: the table an Update leaves is the same for every order in which the
\* active bodies can be collected for the pair loop.
C27_UpdateIndependentOfEnumerationOrder ==
    [][PhysicsStep =>
        \A order \in Orders(CollisionCandidates(bodies)) :
            bodies' = checkCollisions(Integrate(bodies, gravity, physDt'), order)]_vars

\* ------------------------------------------------- the global type lists
Holders(ents, type) == {entityID \in DOMAIN ents : type \in DOMAIN ents[entityID].Components}

\* 1 when the step is an AddComponent of the type on a live entity.
AddedBy(op, ents, type) ==
    IF op.op = "AddComponent" /\ op.type = type /\ op.id \in DOMAIN ents THEN 1 ELSE 0

\* 1 when the step is a RemoveComponent of the type, or a DestroyEntity, on
\* an entity holding the type.
RemovedBy(op, ents, type) ==
    IF /\ op.id \in Holders(ents, type)
       /\ \/ op.op = "RemoveComponent" /\ op.type = type
          \/ op.op = "DestroyEntity"
    THEN 1 ELSE 0

\* C24: each step changes the length of a type's global list by the
\* AddComponent calls of the type on live entities minus the removals of the
\* type from entities holding it; the length is never below the number of
\* live entities holding the type, and is above it once AddComponent was
\* repeated for an entity already holding the type.
C24_ListLengthCountsAddsMinusRemovals ==
    [][\A type \in Types :
          LET before == Len(ComponentList(components, type))
              after == Len(ComponentList(components', type))
              holding == Cardinality(Holders(entities, type))
              holdingAfter == Cardinality(Holders(entities', type))
              added == AddedBy(lastOp', entities, type)
          IN /\ before >= holding
             /\ after >= holdingAfter
             /\ after = before + added - RemovedBy(lastOp', entities, type)
             /\ (added = 1 /\ lastOp'.id \in Holders(entities, type)) => after > holdingAfter
             /\ before > holding => after > holdingAfter]_vars

\* A type added twice to one entity and then removed from it: one entry is
\* left in the list and no live entity holds the type.
C24_Witness ==
    /\ lastOp.op \in {"RemoveComponent", "DestroyEntity"}
    /\ \E type \in Types :
          /\ Len(ComponentList(components, type)) = 1
          /\ Holders(entities, type) = {}
          /\ nextEntityID > 0

\* C25: the component a live entity holds under a type is an element of the
\* type's global list.
C25_AttachedComponentIsInList ==
    \A entityID \in DOMAIN entities :
        \A type \in DOMAIN entities[entityID].Components :
            entities[entityID].Components[type] \in Range(ComponentList(components, type))

\* ------------------------------------------------- callbacks of Update
\* C26: while a system callback runs Update holds no lock of the world, the
\* lock a callback's world operation asks for is free, and an Update that
\* was called returns.
C26_CallbacksRunUnlocked ==
    /\ [](updPc \in {"loop", "callback"} => "Update" \notin mutexR /\ mutexW # "Update")
    /\ [](pc[Updater] = "lock" => CanAcquire(LockMode(call[Updater].op)))
    /\ [](pc[Updater] = "sys_lock" => CanAcquire("Lock"))
    /\ (updPc # "idle") ~> (updPc = "idle")

\* An Update returned after its callbacks created an entity and registered
\* a system.
C26_Witness ==
    /\ lastOp.op = "UpdateReturn"
    /\ Len(invoked) = Len(updStart)
    /\ Len(invoked) > 0
    /\ nextEntityID > 0
    /\ \E i \in 1..Len(systems) : systems[i] \notin Range(updStart)

\* ------------------------------------------------------------ input claims
EventIn(n, key, action) ==
    \E i \in 1..Len(keyEvents) :
        keyEvents[i] = [frame |-> n, key |-> key, action |-> action]

\* C21: with the input manager's callback in the window's slot, a system
\* dispatched in frame n gets IsKeyJustPressed(key) = true exactly when the
\* key's Press event was polled at the end of frame n - 1, and
\* IsKeyJustReleased(key) = true exactly when its Release event was.
C21_JustPressedInTheFrameAfterTheEvent ==
    keyCallback = "input" =>
        \A i \in 1..Len(seen) : \A key \in Keys :
            /\ key \in seen[i].justPressed <=> EventIn(seen[i].frame - 1, key, "Press")
            /\ key \in seen[i].justReleased <=> EventIn(seen[i].frame - 1, key, "Release")

\* C29: after Engine.Init, IsKeyPressed(key) is true exactly from the key's
\* Press event to its Release event.
C29_PressReachesTheInputManager ==
    \A key \in Keys : IsKeyPressed(keys, key) <=> key \in keyDown

====
